---- MODULE Spec2Model ----
(***************************************************************************)
(* Now-playing synchronisation and render-state engine of MusicPlugin      *)
(* (src/manager.py): the track store and its change classifier, the event  *)
(* queue between the YTM push callback and display(), the poll loop, the   *)
(* activation sync and the render tick's snapshot / artwork-cache steps.   *)
(*                                                                         *)
(* Specifications:                                                         *)
(*   Spec       every handler is one action (a poll tick, a push delivery, *)
(*              an activation, a deactivation); display() is two actions,  *)
(*              its entry (lines 726-739) and the rest (lines 741-1180).   *)
(*              Every source configuration; the run observes the updates.  *)
(*   SpecQueue  the same handlers with the hybrid source; the run observes *)
(*              the event queue.                                           *)
(*   SpecBridge the publish of _process_ytm_data_update (lines 320-328)    *)
(*              and the takes of display() one queue call at a time, the   *)
(*              push-callback thread and the render thread interleaved.    *)
(***************************************************************************)
EXTENDS Integers, Sequences, FiniteSets, TLC

(***************************************************************************)
(* Values                                                                  *)
(***************************************************************************)

\* Python's None as the value of an optional field or of a missing dict key.
None == "<None>"

\* self.current_track_info = None (no update yet); also "no dict" for locals.
NoTrack == [unset |-> TRUE]

\* A falsy raw snapshot: get_current_track() returned None.
NoData == [nodata |-> TRUE]

\* A Spotify snapshot without an item ('item' missing or empty).
EmptyItem == [empty |-> TRUE]

\* None where a number is expected: a missing 'durationSeconds' or
\* 'videoProgress', and self._nothing_playing_since_ts = None.
NoNumber == -1

\* dict.get(key): None when the key is missing.
Get(d, k) == IF k \in DOMAIN d THEN d[k] ELSE None

\* Python truthiness of an optional text: None and '' are falsy.
Truthy(s) == s # None /\ s # ""

\* Largest playback position, in seconds, a source reports.
MaxProgress == 2

\* The positions, in seconds, Song1 is reported at while it plays.
ProgressSeconds == 1 .. MaxProgress

(***************************************************************************)
(* Raw snapshots of the two source clients                                 *)
(***************************************************************************)

\* spotify.get_current_track(): a playing item.
SpotifyTrack(name, artists, images, seconds) ==
    [is_playing |-> TRUE,
     item |-> [name |-> name, artists |-> artists,
               album |-> [name |-> "Album", images |-> images],
               duration_ms |-> 180000],
     progress_ms |-> 1000 * seconds]

SpotifyBase == SpotifyTrack("Song1", <<[name |-> "Ann"]>>, <<[url |-> "A"]>>, 1)

\* Song1 at every position, then the tracks that differ from it in one thing:
\* the title (at position 0), the artists, the art URL, no art, the duration;
\* the paused player, the playing player without an item, and no data.
SpotifySnapshots ==
    {SpotifyTrack("Song1", <<[name |-> "Ann"]>>, <<[url |-> "A"]>>, p) :
         p \in ProgressSeconds}
    \cup {SpotifyTrack("Song2", <<[name |-> "Ann"]>>, <<[url |-> "A"]>>, 0),
          SpotifyTrack("Song1", <<[name |-> "Ann"], [name |-> "Bob"]>>,
                       <<[url |-> "A"]>>, 1),
          SpotifyTrack("Song1", <<[name |-> "Ann"]>>, <<[url |-> "B"]>>, 1),
          SpotifyTrack("Song1", <<[name |-> "Ann"]>>, <<>>, 1),
          [SpotifyBase EXCEPT !.item.duration_ms = 200000],
          [SpotifyBase EXCEPT !.is_playing = FALSE],
          [SpotifyBase EXCEPT !.item = EmptyItem],
          NoData}

\* ytm.get_current_track() or the payload of a state-update event: a playing
\* track.
YTMTrack(title, thumbnails, seconds) ==
    [video |-> [title |-> title, author |-> "Ann", thumbnails |-> thumbnails,
                album |-> "Album", durationSeconds |-> 180],
     player |-> [trackState |-> 1, adPlaying |-> FALSE, videoProgress |-> seconds]]

YTMBase == YTMTrack("Song1", <<[url |-> "A"]>>, 1)

\* Song1 at every position, then the tracks that differ from it in one thing:
\* the title (at position 0), the art URL, no art, the duration; the paused
\* player, an ad, a missing title, and no data.
YTMSnapshots ==
    {YTMTrack("Song1", <<[url |-> "A"]>>, p) : p \in ProgressSeconds}
    \cup {YTMTrack("Song2", <<[url |-> "A"]>>, 0),
          YTMTrack("Song1", <<[url |-> "B"]>>, 1),
          YTMTrack("Song1", <<>>, 1),
          [YTMBase EXCEPT !.video.durationSeconds = 200],
          [YTMBase EXCEPT !.player.trackState = 2],
          [YTMBase EXCEPT !.player.adPlaying = TRUE, !.video.title = "Ad"],
          [YTMBase EXCEPT !.video.title = None],
          NoData}

\* The title and author an ad is reported with.
AdTitles == {"Ad"}
AdAuthors == {"Sponsor"}

\* The hybrid snapshots with an ad playing, or without a title or without
\* an author, in every combination of their other fields.
YTMAdSnapshots ==
    {d \in [video : [title : {"Song1", "Ad", None},
                     author : {"Ann", "Sponsor", ""},
                     thumbnails : {<<>>, <<[url |-> "A"]>>},
                     album : {"Album", None},
                     durationSeconds : {180}],
            player : [trackState : {1, 2}, adPlaying : BOOLEAN,
                      videoProgress : {0}]] :
        \/ d.player.adPlaying
        \/ ~Truthy(d.video.title)
        \/ ~Truthy(d.video.author)}

\* The snapshots of a run that watches the event queue only.
YTMQueueSnapshots ==
    {YTMTrack("Song1", <<[url |-> "A"]>>, 1), YTMTrack("Song2", <<[url |-> "A"]>>, 0),
     NoData}

(***************************************************************************)
(* get_simplified_track_info                                               *)
(***************************************************************************)

nothing_playing_info ==
    [source |-> "None", title |-> "Nothing Playing", artist |-> "", album |-> "",
     album_art_url |-> None, duration_ms |-> 0, progress_ms |-> 0,
     is_playing |-> FALSE]

\* ', '.join(names)
RECURSIVE JoinNames(_)
JoinNames(artists) ==
    IF artists = <<>> THEN ""
    ELSE IF Len(artists) = 1 THEN artists[1].name
    ELSE artists[1].name \o ", " \o JoinNames(Tail(artists))

\* images[0].get('url') if images else None
FirstUrl(images) == IF images = <<>> THEN None ELSE Get(images[1], "url")

\* int(seconds * 1000) if seconds is not None else 0
SecondsToMs(seconds) == IF seconds = NoNumber THEN 0 ELSE seconds * 1000

SimplifySpotify(track_data) ==
    LET item == track_data.item
        is_playing_spotify == track_data.is_playing
    IN  IF item = EmptyItem \/ ~is_playing_spotify
        THEN nothing_playing_info
        ELSE [source |-> "Spotify",
              title |-> item.name,
              artist |-> JoinNames(item.artists),
              album |-> item.album.name,
              album_art_url |-> FirstUrl(item.album.images),
              duration_ms |-> item.duration_ms,
              progress_ms |-> track_data.progress_ms,
              is_playing |-> is_playing_spotify]

\* The YTM branch without the ad test of lines 647-649.
SimplifyYTMIgnoringAds(track_data) ==
    LET video_info == track_data.video
        player_info == track_data.player
        title == video_info.title
        artist == video_info.author
        album == video_info.album
    IN  IF ~Truthy(title) \/ ~Truthy(artist) THEN nothing_playing_info
        ELSE [source |-> "YouTube Music",
              title |-> title,
              artist |-> artist,
              album |-> IF Truthy(album) THEN album ELSE "",
              album_art_url |-> FirstUrl(video_info.thumbnails),
              duration_ms |-> SecondsToMs(video_info.durationSeconds),
              progress_ms |-> SecondsToMs(player_info.videoProgress),
              is_playing |-> (player_info.trackState = 1)]

\* Lines 637-674.
SimplifyYTM(track_data) ==
    LET video_info == track_data.video
        player_info == track_data.player
        title == video_info.title
        artist == video_info.author
        album == video_info.album
    IN  IF player_info.adPlaying THEN nothing_playing_info
        ELSE IF ~Truthy(title) \/ ~Truthy(artist) THEN nothing_playing_info
        ELSE [source |-> "YouTube Music",
              title |-> title,
              artist |-> artist,
              album |-> IF Truthy(album) THEN album ELSE "",
              album_art_url |-> FirstUrl(video_info.thumbnails),
              duration_ms |-> SecondsToMs(video_info.durationSeconds),
              progress_ms |-> SecondsToMs(player_info.videoProgress),
              is_playing |-> (player_info.trackState = 1)]

\* source is the MusicSource the caller passes: "NONE", "SPOTIFY" or "YTM".
get_simplified_track_info(track_data, source) ==
    IF source = "SPOTIFY" /\ track_data # NoData THEN SimplifySpotify(track_data)
    ELSE IF source = "YTM" /\ track_data # NoData THEN SimplifyYTM(track_data)
    ELSE nothing_playing_info

\* Lines 226-232: what _process_ytm_data_update hands to the normalizer. A
\* snapshot that is not playing (or is an ad) is replaced by None / NONE.
YTMSimplifiedInfo(ytm_data) ==
    IF ytm_data = NoData
    THEN get_simplified_track_info(NoData, "NONE")
    ELSE LET is_actually_playing_ytm ==
                 ytm_data.player.trackState = 1 /\ ~ytm_data.player.adPlaying
         IN  get_simplified_track_info(
                 IF is_actually_playing_ytm THEN ytm_data ELSE NoData,
                 IF is_actually_playing_ytm THEN "YTM" ELSE "NONE")

(***************************************************************************)
(* State                                                                   *)
(***************************************************************************)

VARIABLES
    \* configuration and clients, fixed by __init__
    enabled,                    \* self.enabled
    preferred_source,           \* self.preferred_source: "spotify" or "ytm"
    music_priority_mode,        \* self.music_priority_mode
    spotify,                    \* self.spotify is not None
    ytm,                        \* self.ytm is not None
    \* SharedState
    current_track_info,
    current_source,             \* "NONE", "SPOTIFY" or "YTM"
    album_art_image,            \* None, or the URL the cached image was fetched from
    last_album_art_url,
    needs_immediate_full_refresh,
    ytm_event_data_queue,       \* queue.Queue(maxsize=1), a sequence
    \* display and priority state
    is_music_display_active,
    is_currently_showing_nothing_playing,
    music_priority_active,
    priority_elapsed,           \* time.time() - music_priority_start_time, capped
    nothing_playing_elapsed,    \* NoNumber, or time.time() - _nothing_playing_since_ts, capped
    \* the YTM client's connection (YTMClient.is_connected)
    ytm_connected,
    \* the configuration dict handed to __init__ (self.config)
    config,
    \* self.track_info_lock: "free", or the context that holds it
    track_info_lock,
    \* self.stop_event is set
    stop_event,
    \* the threads start_polling has created, each by where it is in
    \* _poll_music_data: "entry", "body", "done" or "crashed"
    poll_threads,
    \* self.poll_thread: the index of a thread in poll_threads, 0 for None
    poll_thread,
    \* the handlers a call of which ended with an exception: "poll", "display"
    escapes,
    \* the lifecycle methods the plugin system has called: "update",
    \* "start_polling", "stop_polling"
    host_calls,
    \* the calls to a client, to _fetch_and_resize_image or to the plugin
    \* manager that were made by a context holding track_info_lock
    locked_calls,
    \* the clients a method has been called on, "spotify" or "ytm"
    client_calls,
    \* the render tick: where display() is
    display_pc,
    \* what the run observes, "store" or "queue", and so which snapshots the
    \* hybrid source reports; fixed by the initial state
    scope,
    \* observation of the run, read by the properties only
    last,                       \* the latest update handed to the store
    bridge,                     \* publishes and takes of the event queue
    scenario,                   \* progress of the run along the Song1/Song1/Song2 scenario
    render_seen,                \* what the latest call of display() did
    poll_seen,                  \* what the latest iteration of the poll loop did
    refresh_pending,            \* the track that the latest writer to raise the refresh
                                \* flag had stored, until a full-refresh tick draws it
    \* SpecBridge: where each thread is in _process_ytm_data_update and
    \* display(), and its locals; <<>> where every handler is one action
    bctx,
    \* self.scroll_config['title']: enabled, speed, separator,
    \* initial_pause_frames, end_pause_frames
    scroll_config,
    \* the title's scroll state: scroll_position_title, title_scroll_tick,
    \* title_initial_pause_counter, title_end_pause_counter, title_at_end
    scroll_state,
    \* the album's scroll state: scroll_position_album, album_scroll_tick,
    \* album_initial_pause_counter, album_end_pause_counter, album_at_end
    album_scroll_state,
    \* observation of the latest render tick, read by the properties only:
    \* the title it drew, the text it displayed for it, the scroll state it
    \* scrolled from, whether it was a full refresh, and the counts of
    \* scrolling ticks since the scroll state was all zero (ticks, 0: not
    \* counted), since a reset (since_reset) and with the offset at the end
    \* of the text (end_ticks), and whether the tick came right after the
    \* end pause of this title had elapsed (wrap_due)
    scroll_seen

config_vars == <<config, enabled, preferred_source, music_priority_mode, spotify, ytm>>
state_vars ==
    <<current_track_info, current_source, album_art_image, last_album_art_url,
      needs_immediate_full_refresh, ytm_event_data_queue, is_music_display_active,
      is_currently_showing_nothing_playing, music_priority_active, priority_elapsed,
      nothing_playing_elapsed, ytm_connected, client_calls, track_info_lock,
      locked_calls, escapes, last, bridge, scenario, render_seen,
      poll_seen, refresh_pending>>
thread_vars == <<stop_event, poll_threads, poll_thread, host_calls>>
scroll_vars == <<scroll_config, scroll_state, album_scroll_state, scroll_seen>>
vars == <<config_vars, state_vars, thread_vars, scroll_vars, display_pc, scope, bctx>>

\* self.priority_duration_seconds and self.nothing_playing_timeout_seconds, as
\* configured (lines 112 and 117 give the defaults 30 and 10).
priority_duration_seconds == 1
nothing_playing_timeout_seconds == 1

\* queue.Queue(maxsize=1), line 102
QueueMaxSize == 1

\* The mutable state as one record, so that a handler is the composition of
\* the calls it makes. "raised" is set in the record a handler returns when
\* the call ended with an exception.
Now ==
    [current_track_info |-> current_track_info,
     current_source |-> current_source,
     album_art_image |-> album_art_image,
     last_album_art_url |-> last_album_art_url,
     needs_immediate_full_refresh |-> needs_immediate_full_refresh,
     ytm_event_data_queue |-> ytm_event_data_queue,
     is_music_display_active |-> is_music_display_active,
     is_currently_showing_nothing_playing |-> is_currently_showing_nothing_playing,
     music_priority_active |-> music_priority_active,
     priority_elapsed |-> priority_elapsed,
     nothing_playing_elapsed |-> nothing_playing_elapsed,
     ytm_connected |-> ytm_connected,
     client_calls |-> client_calls,
     track_info_lock |-> track_info_lock,
     locked_calls |-> locked_calls,
     escapes |-> escapes,
     raised |-> FALSE,
     last |-> last,
     bridge |-> bridge,
     scenario |-> scenario,
     render_seen |-> render_seen,
     poll_seen |-> poll_seen,
     refresh_pending |-> refresh_pending]

\* The handler returned: its record s, evaluated once, is the next state.
Becomes(s) ==
    \E after \in {s} :
        /\ current_track_info' = after.current_track_info
        /\ current_source' = after.current_source
        /\ album_art_image' = after.album_art_image
        /\ last_album_art_url' = after.last_album_art_url
        /\ needs_immediate_full_refresh' = after.needs_immediate_full_refresh
        /\ ytm_event_data_queue' = after.ytm_event_data_queue
        /\ is_music_display_active' = after.is_music_display_active
        /\ is_currently_showing_nothing_playing' = after.is_currently_showing_nothing_playing
        /\ music_priority_active' = after.music_priority_active
        /\ priority_elapsed' = after.priority_elapsed
        /\ nothing_playing_elapsed' = after.nothing_playing_elapsed
        /\ ytm_connected' = after.ytm_connected
        /\ client_calls' = after.client_calls
        /\ track_info_lock' = after.track_info_lock
        /\ locked_calls' = after.locked_calls
        /\ escapes' = after.escapes
        /\ last' = after.last
        /\ bridge' = after.bridge
        /\ scenario' = after.scenario
        /\ render_seen' = after.render_seen
        /\ poll_seen' = after.poll_seen
        /\ refresh_pending' = after.refresh_pending

(***************************************************************************)
(* Observation of an update (read by the properties, never by the model)   *)
(***************************************************************************)

TrackInfoFields ==
    {"source", "title", "artist", "album", "album_art_url", "duration_ms",
     "progress_ms", "is_playing"}

\* The TrackInfo a stored dict holds: its eight fields, without the
\* 'album_art_url_prev_spotify' key the Spotify poll adds to the stored dict.
TrackInfoOf(d) == [f \in TrackInfoFields |-> d[f]]

\* How an incoming TrackInfo relates to the current one, in the words of the
\* specification: "unset", "same", "significant" (title, artist,
\* album_art_url or is_playing differs), "progress" (only progress_ms and/or
\* duration_ms differ) or "other" (album or source differs, none of the above).
Relation(before, info) ==
    IF before = NoTrack THEN "unset"
    ELSE IF TrackInfoOf(before) = info THEN "same"
    ELSE IF \E f \in {"title", "artist", "album_art_url", "is_playing"} :
               before[f] # info[f]
         THEN "significant"
    ELSE IF before.source = info.source /\ before.album = info.album THEN "progress"
    ELSE "other"

\* What the update did to the artwork cache: "untouched", "retargeted" (the
\* image is dropped and the incoming URL is the cached URL) or "other".
ArtEffect(s0, s1, info) ==
    IF s1.album_art_image = s0.album_art_image
       /\ s1.last_album_art_url = s0.last_album_art_url THEN "untouched"
    ELSE IF s1.album_art_image = None /\ s1.last_album_art_url = info.album_art_url
         THEN "retargeted"
    ELSE "other"

\* The case of the artwork cache an update meets: the stored track has URL A
\* and the cache holds the image fetched for A, and the incoming URL "differs"
\* from A or is the "same"; "n/a" otherwise.
ArtCase(s0, info) ==
    IF s0.current_track_info = NoTrack
       \/ s0.album_art_image = None
       \/ s0.last_album_art_url # s0.current_track_info.album_art_url
    THEN "n/a"
    ELSE IF s0.current_track_info.album_art_url # info.album_art_url THEN "differs"
    ELSE "same"

\* A raw hybrid snapshot of a track that is not playing: a playback-state code
\* other than 1, no ad, title and artist present.
IsPausedTrack(raw) ==
    /\ "player" \in DOMAIN raw
    /\ raw.player.trackState # 1 /\ ~raw.player.adPlaying
    /\ Truthy(raw.video.title) /\ Truthy(raw.video.author)

\* A raw hybrid snapshot with an ad playing, or without a title or an author.
IsAdOrIncomplete(raw) ==
    /\ "player" \in DOMAIN raw
    /\ \/ raw.player.adPlaying
       \/ ~Truthy(raw.video.title)
       \/ ~Truthy(raw.video.author)

\* The scenario of three updates from an unset store: Song1 playing at
\* 1000 ms, the same track at 2000 ms, then Song2 playing at 0 ms. pos counts
\* the updates that followed it so far; -1 once the run has left it.
ScenarioNext(sc, before, info, kind, set_flag) ==
    LET follows ==
            CASE sc.pos = 0 ->
                     /\ before = NoTrack
                     /\ info.title = "Song1" /\ info.is_playing
                     /\ info.progress_ms = 1000
              [] sc.pos = 1 ->
                     /\ before # NoTrack
                     /\ info = [TrackInfoOf(before) EXCEPT !.progress_ms = 2000]
              [] sc.pos = 2 ->
                     /\ before # NoTrack
                     /\ info = [TrackInfoOf(before) EXCEPT !.title = "Song2",
                                                           !.progress_ms = 0]
              [] OTHER -> FALSE
    IN  IF sc.pos = 3 THEN sc
        ELSE IF follows
             THEN [pos |-> sc.pos + 1,
                   kinds |-> Append(sc.kinds, kind),
                   raised |-> Append(sc.raised, set_flag)]
        ELSE [pos |-> -1, kinds |-> <<>>, raised |-> <<>>]

NoUpdate ==
    [path |-> "none", info |-> NoTrack, paused |-> FALSE, ad |-> FALSE, kind |-> "None",
     rel |-> "unset", set_flag |-> FALSE, flag_after |-> FALSE,
     published |-> FALSE, art_case |-> "n/a",
     art |-> "untouched"]

\* s0: the state when the update arrived; s1: the state the handler left;
\* raw: the snapshot the update was normalized from; set_flag: the handler
\* wrote the refresh flag.
Observe(s0, s1, path, raw, info, kind, set_flag, published) ==
    IF scope # "store" THEN s1
    ELSE
    [s1 EXCEPT
        !.last = [path |-> path,
                  info |-> info,
                  paused |-> IsPausedTrack(raw),
                  ad |-> IsAdOrIncomplete(raw),
                  kind |-> kind,
                  rel |-> Relation(s0.current_track_info, info),
                  set_flag |-> set_flag,
                  flag_after |-> s1.needs_immediate_full_refresh,
                  published |-> published,
                  art_case |-> ArtCase(s0, info),
                  art |-> ArtEffect(s0, s1, info)],
        !.scenario = ScenarioNext(s0.scenario, s0.current_track_info, info, kind,
                                  set_flag)]

(***************************************************************************)
(* The event queue                                                         *)
(***************************************************************************)

\* The observation of the queue: the publishes completed since the last
\* take (capped at 2) and the value of the latest; for the takes since the
\* last publish (the first two), what each returned: "latest" (the value
\* published last), "stale" (another value) or "empty"; and whether a
\* publish ended in an error.
BridgePublished(b, info) ==
    IF scope # "queue" THEN b
    ELSE [b EXCEPT !.pubs = IF @ < 2 THEN @ + 1 ELSE 2, !.latest = info,
                   !.takes = <<>>]

BridgeTook(b, q) ==
    LET got == IF q = <<>> THEN "empty"
               ELSE IF Head(q) = b.latest THEN "latest" ELSE "stale"
    IN  IF scope # "queue" THEN b
        ELSE [b EXCEPT !.pubs = 0, !.latest = NoTrack,
                       !.takes = IF Len(@) < 2
                                 THEN Append(@, [after |-> b.pubs, got |-> got])
                                 ELSE @]

\* queue.Queue: empty(), get_nowait() and put_nowait(item), each one call.
QueueEmpty(q) == q = <<>>
QueueFull(q) == Len(q) >= QueueMaxSize

\* Lines 323-324 run by one thread alone: the queue is drained.
RECURSIVE Drain(_)
Drain(q) == IF QueueEmpty(q) THEN q ELSE Drain(Tail(q))

\* A publish that puts without draining first.

PublishWithoutDrain(q, simplified_info) ==
    IF QueueFull(q) THEN q ELSE Append(q, simplified_info)

\* Lines 322-328 run by one thread alone: drain the queue, then put; a
\* queue.Full is caught and the value dropped.
Publish(q, simplified_info) ==
    LET drained == Drain(q)
    IN  IF QueueFull(drained) THEN drained ELSE Append(drained, simplified_info)

\* Line 321: the updates that are put into the queue.
IsPublished(source_description) ==
    source_description \in {"YTM Event", "YTM Activate Sync"}

(***************************************************************************)
(* The track store: classification and the writes under track_info_lock    *)
(***************************************************************************)

\* A classifier that also counts a change of position.
IsSignificantWithProgress(current, new) ==
    IF current = NoTrack THEN new.title # "Nothing Playing"
    ELSE \/ new.title # current.title
         \/ new.artist # current.artist
         \/ new.album_art_url # current.album_art_url
         \/ new.is_playing # current.is_playing
         \/ new.progress_ms # current.progress_ms

\* A classifier that never counts the first track of an unset store.
IsSignificantSetOnly(current, new) ==
    /\ current # NoTrack
    /\ \/ new.title # current.title
       \/ new.artist # current.artist
       \/ new.album_art_url # current.album_art_url
       \/ new.is_playing # current.is_playing

\* Lines 242-252 and 490-500: the change is significant.
IsSignificant(current, new) ==
    IF current = NoTrack THEN new.title # "Nothing Playing"
    ELSE \/ new.title # current.title
         \/ new.artist # current.artist
         \/ new.album_art_url # current.album_art_url
         \/ new.is_playing # current.is_playing

\* The change kind the handler reports: significant_change_detected, else
\* processed_a_meaningful_update, else no change.
ChangeKind(significant, processed) ==
    IF significant THEN "Significant" ELSE IF processed THEN "Minor" ELSE "None"

\* Lines 261-267.
NextSourceYTM(source, simplified_info) ==
    IF simplified_info.source = "YouTube Music" /\ simplified_info.is_playing THEN "YTM"
    ELSE IF source = "YTM" /\ ~simplified_info.is_playing THEN "NONE"
    ELSE IF simplified_info.source = "None" THEN "NONE"
    ELSE source

\* Lines 274-288 without the assignments of None to album_art_image.
ArtCacheYTMKeepingImage(image, last_url, old_album_art_url, new_album_art_url) ==
    IF new_album_art_url # old_album_art_url
    THEN [image |-> image, url |-> new_album_art_url]
    ELSE IF ~Truthy(last_url) /\ Truthy(new_album_art_url)
    THEN [image |-> image, url |-> new_album_art_url]
    ELSE IF new_album_art_url = None /\ old_album_art_url # None
    THEN [image |-> image, url |-> None]
    ELSE IF Truthy(new_album_art_url) /\ ~Truthy(last_url)
    THEN [image |-> image, url |-> new_album_art_url]
    ELSE [image |-> image, url |-> last_url]

\* Lines 274-288: the artwork cache after a YTM update replaced the track.
ArtCacheYTM(image, last_url, old_album_art_url, new_album_art_url) ==
    IF new_album_art_url # old_album_art_url
    THEN [image |-> None, url |-> new_album_art_url]
    ELSE IF ~Truthy(last_url) /\ Truthy(new_album_art_url)
    THEN [image |-> None, url |-> new_album_art_url]
    ELSE IF new_album_art_url = None /\ old_album_art_url # None
    THEN [image |-> None, url |-> None]
    ELSE IF Truthy(new_album_art_url) /\ ~Truthy(last_url)
    THEN [image |-> None, url |-> new_album_art_url]
    ELSE [image |-> image, url |-> last_url]

\* A store that replaces the track on a significant change only.
StoreYTMSignificantOnly(s, simplified_info) ==
    LET current == s.current_track_info
        significant == IsSignificant(current, simplified_info)
    IN  [state |-> IF significant
                   THEN [s EXCEPT
                            !.current_track_info = simplified_info,
                            !.current_source = NextSourceYTM(@, simplified_info)]
                   ELSE s,
         significant |-> significant,
         processed |-> simplified_info # current]

\* Lines 237-318: the section of _process_ytm_data_update under the lock.
StoreYTM(s, simplified_info) ==
    LET current == s.current_track_info
        significant == IsSignificant(current, simplified_info)
    IN  IF simplified_info # current
        THEN LET old_album_art_url ==
                     IF current # NoTrack THEN current.album_art_url ELSE None
                 cache == ArtCacheYTM(s.album_art_image, s.last_album_art_url,
                                      old_album_art_url,
                                      simplified_info.album_art_url)
             IN  [state |-> [s EXCEPT
                      !.current_track_info = simplified_info,
                      !.current_source = NextSourceYTM(s.current_source, simplified_info),
                      !.album_art_image = cache.image,
                      !.last_album_art_url = cache.url],
                  significant |-> significant,
                  processed |-> TRUE]
        ELSE IF current = NoTrack /\ simplified_info.title # "Nothing Playing"
        THEN [state |-> [s EXCEPT !.current_track_info = simplified_info],
              significant |-> TRUE, processed |-> TRUE]
        ELSE [state |-> s, significant |-> significant, processed |-> FALSE]

\* No change waits for a full refresh.
NoRefresh == [pending |-> FALSE, info |-> NoTrack]

\* Lines 332, 510 and 543: a writer that has stored a track sets
\* _needs_immediate_full_refresh.
RaiseRefresh(s) ==
    [s EXCEPT !.needs_immediate_full_refresh = TRUE,
              !.refresh_pending =
                  IF scope = "refresh"
                  THEN [pending |-> TRUE, info |-> s.current_track_info]
                  ELSE @]

\* The snapshot shows the change: the fields a significant change is
\* detected by (lines 242-252) are those of the track the writer stored.
IncludesChange(snapshot, info) ==
    IF snapshot = NoTrack \/ info = NoTrack THEN snapshot = info
    ELSE /\ snapshot.title = info.title
         /\ snapshot.artist = info.artist
         /\ snapshot.album_art_url = info.album_art_url
         /\ snapshot.is_playing = info.is_playing

\* Lines 770-781: a tick in full-refresh mode has its snapshot.
RefreshSeen(s, perform_full_refresh_this_cycle, snapshot) ==
    IF perform_full_refresh_this_cycle /\ s.refresh_pending.pending
       /\ IncludesChange(snapshot, s.refresh_pending.info)
    THEN [s EXCEPT !.refresh_pending = NoRefresh]
    ELSE s

\* _process_ytm_data_update, lines 204-336, run without interruption:
\* normalize, store under the lock, publish, raise the refresh flag.
process_ytm_data_update(s, ytm_data, source_description) ==
    LET simplified_info == YTMSimplifiedInfo(ytm_data)
        r == StoreYTM(s, simplified_info)
        published == IsPublished(source_description)
        s0 == [r.state EXCEPT
                  !.ytm_event_data_queue =
                      IF published THEN Publish(@, simplified_info) ELSE @,
                  !.bridge =
                      IF published THEN BridgePublished(@, simplified_info) ELSE @]
        s1 == IF r.significant THEN RaiseRefresh(s0) ELSE s0
    IN  [state |-> Observe(s, s1, source_description, ytm_data, simplified_info,
                           ChangeKind(r.significant, r.processed),
                           r.significant, published),
         simplified_info |-> simplified_info,
         significant |-> r.significant]

(***************************************************************************)
(* Priority mode                                                           *)
(***************************************************************************)

\* with self.track_info_lock: the context enters the block.
Acquire(s, context) == [s EXCEPT !.track_info_lock = context]

\* A with block left without the release of the lock.
ReleaseSkipped(s) == s

\* The end of a with block of track_info_lock, on every way out of it.
Release(s) == [s EXCEPT !.track_info_lock = "free"]

\* A call that leaves the plugin: a method of a client, an image fetch, or
\* a method of the plugin manager. It is noted when the caller holds
\* track_info_lock.
CollaboratorCall(s, call) ==
    IF s.track_info_lock # "free"
    THEN [s EXCEPT !.locked_calls = @ \cup {call}]
    ELSE s

\* Lines 380-389. The plugin manager is one that has set_priority_mode
\* (line 388).
activate_music_priority(s) ==
    IF ~s.music_priority_active
    THEN CollaboratorCall(
             [s EXCEPT !.music_priority_active = TRUE, !.priority_elapsed = 0],
             "plugin_manager.set_priority_mode")
    ELSE s

\* Lines 391-399. The start time is not read while priority is inactive. The
\* plugin manager is one that has clear_priority_mode (line 398).
deactivate_music_priority(s) ==
    IF s.music_priority_active
    THEN CollaboratorCall(
             [s EXCEPT !.music_priority_active = FALSE, !.priority_elapsed = 0],
             "plugin_manager.clear_priority_mode")
    ELSE s

\* Lines 401-409 with the comparison of line 405 turned into >=.
CheckTimeoutAtDuration(s) ==
    IF s.music_priority_active /\ s.priority_elapsed >= priority_duration_seconds
    THEN deactivate_music_priority(s)
    ELSE s

\* Lines 401-409.
check_music_priority_timeout(s) ==
    IF s.music_priority_active /\ s.priority_elapsed > priority_duration_seconds
    THEN deactivate_music_priority(s)
    ELSE s

(***************************************************************************)
(* Activation and deactivation of the music display                        *)
(***************************************************************************)

\* spotify.is_authenticated() raised; ytm.connect_client() raised. They take
\* the place of the snapshot in the results of an iteration's client calls.
AuthRaises == [raises |-> TRUE, call |-> "is_authenticated"]
ConnectRaises == [raises |-> TRUE, call |-> "connect_client"]

\* spotify.get_current_track() or ytm.get_current_track() raised.
Raises == [raises |-> TRUE]

\* The call of handler ends with an exception that nothing catches.
Escape(s, handler) == [s EXCEPT !.raised = TRUE, !.escapes = @ \cup {handler}]

\* A method of the client of source src is called (is_authenticated,
\* get_current_track, connect_client, disconnect_client).
Called(s, src) == CollaboratorCall([s EXCEPT !.client_calls = @ \cup {src}], src)

\* F of v, v being evaluated once.
With(v, F(_)) == CHOOSE r \in {F(x) : x \in {v}} : TRUE

\* Lines 338-365 up to the sync: the display is marked active, the client is
\* connected if need be, and "call" is the description of the
\* _process_ytm_data_update call that follows ("none": no call).
\* connect_ok: what ytm.connect_client(timeout=10) returns; latest_data: what
\* ytm.get_current_track() returns.
activation_sync(s, connect_ok, latest_data) ==
    LET s1 == [s EXCEPT !.is_music_display_active = TRUE]
        s1p == IF music_priority_mode THEN activate_music_priority(s1) ELSE s1
        s2 == IF ytm /\ preferred_source = "ytm" THEN Called(s1p, "ytm") ELSE s1p
        skip == [state |-> s2, call |-> "none", ytm_data |-> NoData]
    IN  IF ytm /\ preferred_source = "ytm"
        THEN IF ~s2.ytm_connected
             THEN IF latest_data = ConnectRaises
                  THEN [skip EXCEPT !.state = Escape(s2, "display")]
                  ELSE IF connect_ok
                  THEN LET s3 == [s2 EXCEPT !.ytm_connected = TRUE]
                       IN  IF latest_data = Raises
                           THEN [skip EXCEPT !.state = Escape(s3, "display")]
                           ELSE IF latest_data # NoData
                           THEN [state |-> s3, call |-> "YTM Activate Sync",
                                 ytm_data |-> latest_data]
                           ELSE [skip EXCEPT !.state = s3]
                  ELSE skip
             ELSE IF latest_data = Raises
                  THEN [skip EXCEPT !.state = Escape(s2, "display")]
                  ELSE IF latest_data # NoData
                  THEN [state |-> s2, call |-> "YTM Activate Sync",
                        ytm_data |-> latest_data]
                  ELSE [state |-> s2, call |-> "YTM Activate Sync (No Data)",
                        ytm_data |-> NoData]
        ELSE skip

\* Lines 338-365, run without interruption.
activate_music_display(s, connect_ok, latest_data) ==
    With(activation_sync(s, connect_ok, latest_data),
         LAMBDA a : IF a.call = "none" THEN a.state
                    ELSE With(a.state,
                              LAMBDA s1 : process_ytm_data_update(s1, a.ytm_data, a.call).state))

\* Lines 367-378.
deactivate_music_display(s) ==
    LET s1 == [s EXCEPT !.is_music_display_active = FALSE]
        s2 == IF music_priority_mode THEN deactivate_music_priority(s1) ELSE s1
    IN  IF ytm /\ s2.ytm_connected
        THEN Called([s2 EXCEPT !.ytm_connected = FALSE], "ytm")
        ELSE s2

(***************************************************************************)
(* The push handler                                                        *)
(***************************************************************************)

\* A delivery the handler returned from at line 418 or line 422: nothing of
\* the engine is touched, the observation notes that a delivery was dropped.
Ignored(s) ==
    IF scope # "store" THEN s
    ELSE [s EXCEPT !.last = [NoUpdate EXCEPT !.path = "YTM Event (ignored)"]]

\* The handler without the test of is_music_display_active at line 417.
HandleWithoutActiveGuard(s, ytm_data) ==
    IF ~enabled THEN Ignored(s)
    ELSE IF preferred_source # "ytm" THEN Ignored(s)
    ELSE process_ytm_data_update(s, ytm_data, "YTM Event").state

\* Lines 411-425.
handle_ytm_direct_update(s, ytm_data) ==
    IF ~enabled \/ ~s.is_music_display_active THEN Ignored(s)
    ELSE IF preferred_source # "ytm" THEN Ignored(s)
    ELSE process_ytm_data_update(s, ytm_data, "YTM Event").state

(***************************************************************************)
(* One iteration of the poll loop                                          *)
(***************************************************************************)


\* Lines 523-528: the artwork cache after a Spotify poll replaced the track.
\* The 'album_art_url_prev_spotify' key is read from the dict that line 504
\* has just stored, which is the new simplified_info_poll.
ArtCacheSpotify(image, last_url, stored_info, new_album_art_url) ==
    LET old_album_art_url == Get(stored_info, "album_art_url_prev_spotify")
    IN  IF new_album_art_url # old_album_art_url
        THEN [image |-> None, url |-> new_album_art_url]
        ELSE [image |-> image, url |-> last_url]

\* Lines 486-532: a playing Spotify snapshot, under the lock.
StoreSpotify(s, spotify_track, simplified_info_poll) ==
    IF simplified_info_poll # s.current_track_info
    THEN LET significant == IsSignificant(s.current_track_info, simplified_info_poll)
             s1 == [Acquire(s, "poll") EXCEPT
                       !.current_track_info = simplified_info_poll,
                       !.current_source = "SPOTIFY"]
             s2 == IF significant
                   THEN LET s3 == RaiseRefresh(s1)
                        IN  IF music_priority_mode /\ simplified_info_poll.is_playing
                               /\ ~s3.music_priority_active
                            THEN activate_music_priority(s3)
                            ELSE s3
                   ELSE s1
             new_album_art_url == simplified_info_poll.album_art_url
             cache == ArtCacheSpotify(s2.album_art_image, s2.last_album_art_url,
                                      s2.current_track_info, new_album_art_url)
             s4 == [s2 EXCEPT
                       !.album_art_image = cache.image,
                       !.last_album_art_url = cache.url,
                       !.current_track_info =
                           @ @@ ("album_art_url_prev_spotify" :> new_album_art_url)]
         IN  Observe(s, Release(s4), "Spotify Poll", spotify_track, simplified_info_poll,
                     ChangeKind(significant, TRUE), significant, FALSE)
    ELSE Observe(s, s, "Spotify Poll", spotify_track, simplified_info_poll,
                 ChangeKind(FALSE, FALSE), FALSE, FALSE)

\* Lines 534-551: no active track or player paused, under the lock.
StopSpotify(s) ==
    IF s.current_source = "SPOTIFY"
    THEN LET simplified_info == get_simplified_track_info(NoData, "NONE")
             s1 == RaiseRefresh([Acquire(s, "poll") EXCEPT
                       !.current_track_info = simplified_info,
                       !.current_source = "NONE",
                       !.album_art_image = None,
                       !.last_album_art_url = None])
             s2 == IF music_priority_mode /\ s1.music_priority_active
                   THEN deactivate_music_priority(s1)
                   ELSE s1
         IN  Observe(s, Release(s2), "Spotify Stop", NoData, simplified_info, "Significant",
                     TRUE, FALSE)
    ELSE s

\* No iteration of the poll loop has run yet.
NoPoll ==
    [done |-> FALSE, preferred_source |-> "none", connected |-> FALSE,
     active |-> FALSE, source |-> "NONE", reconnect |-> "none", changed |-> FALSE,
     after |-> <<NoTrack, "NONE", None, None>>]

\* Notes what one iteration of the loop of _poll_music_data did: the state
\* s0 it started in, whether it called ytm.connect_client and with which
\* result ("none", "ok", "failed", "raised"), and the state s1 it left.
PollSeen(s0, s1, reconnect) ==
    IF scope = "reconnect"
    THEN [s1 EXCEPT !.poll_seen =
             [done |-> TRUE, preferred_source |-> preferred_source,
              connected |-> s0.ytm_connected, active |-> s0.is_music_display_active,
              source |-> s0.current_source, reconnect |-> reconnect,
              changed |-> s1 # s0,
              after |-> <<s1.current_track_info, s1.current_source,
                          s1.album_art_image, s1.last_album_art_url>>]]
    ELSE s1

\* Lines 480-556. authenticated: what spotify.is_authenticated() returns;
\* spotify_track: what spotify.get_current_track() returns, or Raises.
poll_spotify(s, authenticated, spotify_track) ==
    LET s0 == Called(s, "spotify")
    IN  PollSeen(s,
            IF spotify_track = AuthRaises THEN Escape(s0, "poll")
            ELSE IF ~authenticated \/ spotify_track = Raises THEN s0
            ELSE IF spotify_track # NoData /\ spotify_track.is_playing
            THEN StoreSpotify(s0, spotify_track,
                              get_simplified_track_info(spotify_track, "SPOTIFY"))
            ELSE StopSpotify(s0),
            "none")

\* The failed reconnect that leaves the cached artwork in place.
ReconnectFailedKeepingArt(s) ==
    IF s.current_source = "YTM"
    THEN LET simplified_info == get_simplified_track_info(NoData, "NONE")
             s1 == [Acquire(s, "poll") EXCEPT
                       !.current_track_info = simplified_info,
                       !.current_source = "NONE"]
             s2 == IF music_priority_mode /\ s1.music_priority_active
                   THEN deactivate_music_priority(s1)
                   ELSE s1
         IN  Observe(s, Release(s2), "YTM Reconnect Failed", NoData, simplified_info,
                     "Significant", FALSE, FALSE)
    ELSE s

\* Lines 586-601: the reconnect failed, under the lock.
ReconnectFailed(s) ==
    IF s.current_source = "YTM"
    THEN LET simplified_info == get_simplified_track_info(NoData, "NONE")
             s1 == [Acquire(s, "poll") EXCEPT
                       !.current_track_info = simplified_info,
                       !.current_source = "NONE",
                       !.album_art_image = None,
                             !.last_album_art_url = None]
             s2 == IF music_priority_mode /\ s1.music_priority_active
                   THEN deactivate_music_priority(s1)
                   ELSE s1
         IN  Observe(s, Release(s2), "YTM Reconnect Failed", NoData, simplified_info,
                     "Significant", FALSE, FALSE)
    ELSE s

\* Lines 558-601. ytm_track_data: what ytm.get_current_track() returns, or
\* Raises; connect_ok: what ytm.connect_client(timeout=5) returns.
poll_ytm(s, connect_ok, ytm_track_data) ==
    IF s.ytm_connected
    THEN PollSeen(s,
             IF ytm_track_data = Raises THEN Called(s, "ytm")
             ELSE LET r == process_ytm_data_update(Called(s, "ytm"), ytm_track_data,
                                                   "YTM Poll")
                  IN  IF r.significant /\ music_priority_mode
                         /\ r.simplified_info.is_playing
                         /\ ~r.state.music_priority_active
                      THEN activate_music_priority(r.state)
                      ELSE r.state,
             "none")
    ELSE IF s.is_music_display_active
    THEN IF ytm_track_data = ConnectRaises
         THEN PollSeen(s, Escape(Called(s, "ytm"), "poll"), "raised")
         ELSE IF connect_ok
         THEN LET s1 == Called([s EXCEPT !.ytm_connected = TRUE], "ytm")
              IN  PollSeen(s,
                      IF ytm_track_data = Raises THEN Escape(s1, "poll")
                      ELSE IF ytm_track_data # NoData
                      THEN process_ytm_data_update(
                               s1, ytm_track_data, "YTM Poll Reconnect Sync").state
                      ELSE s1,
                      "ok")
         ELSE PollSeen(s, ReconnectFailed(Called(s, "ytm")), "failed")
    ELSE PollSeen(s, s, "none")

(***************************************************************************)
(* The render tick                                                         *)
(***************************************************************************)

\* get_nowait() of display(), lines 746-750 and 764-768: the value taken, or
\* NoTrack after queue.Empty, and the state with the queue as it is left.
TakeFromQueue(s) ==
    [value |-> IF QueueEmpty(s.ytm_event_data_queue) THEN NoTrack
               ELSE Head(s.ytm_event_data_queue),
     state |-> [s EXCEPT
                   !.ytm_event_data_queue = IF QueueEmpty(@) THEN @ ELSE Tail(@),
                   !.bridge = BridgeTook(@, s.ytm_event_data_queue)]]

\* The observation of a call of display() before it has done anything.
NoRender ==
    [timeout |-> [active |-> FALSE, elapsed |-> 0, relinquished |-> FALSE],
     full_refresh |-> FALSE,
     branch |-> "none",
     previous |-> "none",
     nothing_playing |-> [priority |-> FALSE, elapsed |-> 0, relinquished |-> FALSE],
     drain |-> [done |-> FALSE, left |-> FALSE, from_queue |-> FALSE],
     art |-> [done |-> FALSE, target |-> None, fetched |-> FALSE, live |-> None, before |-> <<None, None>>, after |-> <<None, None>>],
     snapshot |-> [done |-> FALSE, writer |-> FALSE, stale |-> FALSE],
     priority |-> [done |-> FALSE, entry_active |-> FALSE, after |-> FALSE],
     paste |-> [done |-> FALSE, image |-> None, target |-> None, cached |-> <<None, None>>],
     canvas |-> {}]

\* The runs that observe the calls of display().
RenderScopes == {"priority", "art"}

\* Notes a part of what the call of display() did.
Seen(s, part, value) ==
    IF scope \in RenderScopes THEN [s EXCEPT !.render_seen[part] = value] ELSE s

\* Calls of the display manager: "clear" (clear()), "draw_text"
\* (draw_text()), "draw" (draw.rectangle(), image.paste()) and
\* "update_display" (update_display()).
Canvas(s, calls) ==
    IF scope \in RenderScopes THEN [s EXCEPT !.render_seen.canvas = @ \cup calls] ELSE s

\* Lines 726-739: the priority timeout check and the activation on entry.
display_enter(s, connect_ok, latest_data) ==
    LET s0 == IF music_priority_mode THEN check_music_priority_timeout(s) ELSE s
        s1 == Seen(Seen([s0 EXCEPT !.render_seen = NoRender], "previous", s.render_seen.branch), "timeout", [active |-> s.music_priority_active, elapsed |-> s.priority_elapsed, relinquished |-> s.music_priority_active /\ ~s0.music_priority_active])
        s2 == Seen(s1, "priority", [done |-> FALSE,
                                    entry_active |-> s.is_music_display_active,
                                    after |-> FALSE])
    IN  IF ~s2.is_music_display_active
        THEN activate_music_display(s2, connect_ok, latest_data)
        ELSE s2

\* Lines 820-822 with the comparison of line 822 made strict.
NothingPlayingTimedOutLate(s) ==
    /\ music_priority_mode /\ s.music_priority_active
    /\ s.nothing_playing_elapsed > nothing_playing_timeout_seconds

\* Lines 820-822: priority is active and nothing has been playing for the
\* configured time.
NothingPlayingTimedOut(s) ==
    /\ music_priority_mode /\ s.music_priority_active
    /\ s.nothing_playing_elapsed >= nothing_playing_timeout_seconds

\* Line 827 without the test of is_currently_showing_nothing_playing.
DrawsNothingPlayingAlways(s, perform_full_refresh_this_cycle) == TRUE

\* Line 827: the "Nothing Playing" text is not on the display yet, or the
\* tick is a full refresh.
DrawsNothingPlaying(s, perform_full_refresh_this_cycle) ==
    ~s.is_currently_showing_nothing_playing \/ perform_full_refresh_this_cycle

\* Lines 813-849: the Nothing Playing branch.
NothingPlayingBranch(s, perform_full_refresh_this_cycle) ==
    LET s1 == IF s.nothing_playing_elapsed = NoNumber
              THEN [s EXCEPT !.nothing_playing_elapsed = 0]
              ELSE s
        seen == [priority |-> music_priority_mode /\ s1.music_priority_active, elapsed |-> s1.nothing_playing_elapsed, relinquished |-> FALSE]
    IN  IF NothingPlayingTimedOut(s1)
        THEN Seen(Seen([deactivate_music_priority(s1) EXCEPT !.nothing_playing_elapsed = NoNumber],
                       "nothing_playing", [seen EXCEPT !.relinquished = TRUE]),
                  "branch", "nothing_playing_timeout")
        ELSE LET s1n == Seen(Seen(s1, "nothing_playing", seen), "branch", "nothing_playing")
                 s2 == IF DrawsNothingPlaying(s1n, perform_full_refresh_this_cycle)
                       THEN Canvas([s1n EXCEPT !.is_currently_showing_nothing_playing = TRUE],
                                   {"clear", "draw_text", "update_display"})
                       ELSE s1n
             IN  IF s2.album_art_image # None \/ s2.last_album_art_url # None
                 THEN [s2 EXCEPT !.album_art_image = None,
                                 !.last_album_art_url = None]
                 ELSE s2

\* Lines 894-899: the snapshot has an artwork URL and the cache does not
\* hold the image of that URL, so the image is fetched.
NeedsFetch(snapshot, art_url_currently_in_cache, image_currently_in_cache) ==
    /\ Truthy(snapshot.album_art_url)
    /\ ~(image_currently_in_cache # None /\ art_url_currently_in_cache = snapshot.album_art_url)

\* The observation of what the fetch of target did to the artwork cache of
\* state s, the result being state r.
ArtSeen(s, r, target, fetch_ok) ==
    [done |-> TRUE, target |-> target, fetched |-> fetch_ok,
     live |-> IF s.current_track_info # NoTrack THEN s.current_track_info.album_art_url ELSE None,
     before |-> <<s.album_art_image, s.last_album_art_url>>,
     after |-> <<r.album_art_image, r.last_album_art_url>>]

\* Lines 893 and 784-786: what display() holds as it turns to the artwork,
\* the album_art_url of its snapshot and its copies of the cache.
Targeted(s, target_art_url_for_current_track, art_url_currently_in_cache, image_currently_in_cache) ==
    Seen(s, "paste", [done |-> FALSE, image |-> None,
                      target |-> target_art_url_for_current_track,
                      cached |-> <<image_currently_in_cache, art_url_currently_in_cache>>])

\* Lines 926-931: the image display() pastes (None: the placeholder
\* rectangle is drawn).
Pasted(s, image_to_render_this_cycle) ==
    IF scope \in RenderScopes
    THEN [s EXCEPT !.render_seen.paste.done = TRUE,
                   !.render_seen.paste.image = image_to_render_this_cycle]
    ELSE s

\* Lines 900-919 without the comparison of line 907.
CommitArtworkUnchecked(s, target_art_url_for_current_track, fetch_ok) ==
    LET r == IF fetch_ok
             THEN [s EXCEPT !.album_art_image = target_art_url_for_current_track,
                            !.last_album_art_url = target_art_url_for_current_track]
             ELSE IF s.last_album_art_url = target_art_url_for_current_track
             THEN [s EXCEPT !.album_art_image = None]
             ELSE s
        image_to_render_this_cycle ==
            IF fetch_ok THEN target_art_url_for_current_track ELSE None
    IN  Pasted(Seen(r, "art", ArtSeen(s, r, target_art_url_for_current_track, fetch_ok)),
               image_to_render_this_cycle)

\* Lines 900-919: what follows the return of _fetch_and_resize_image,
\* under track_info_lock.
CommitArtwork(s, target_art_url_for_current_track, fetch_ok) ==
    LET latest_known_art_url_in_live_info ==
            IF s.current_track_info # NoTrack
            THEN s.current_track_info.album_art_url
            ELSE None
        r == IF fetch_ok
             THEN IF target_art_url_for_current_track = latest_known_art_url_in_live_info
                  THEN [s EXCEPT !.album_art_image = target_art_url_for_current_track,
                                 !.last_album_art_url = target_art_url_for_current_track]
                  ELSE s
             ELSE IF s.last_album_art_url = target_art_url_for_current_track
             THEN [s EXCEPT !.album_art_image = None]
             ELSE s
        image_to_render_this_cycle ==
            IF fetch_ok /\ target_art_url_for_current_track = latest_known_art_url_in_live_info
            THEN target_art_url_for_current_track ELSE None
    IN  Pasted(Seen(r, "art", ArtSeen(s, r, target_art_url_for_current_track, fetch_ok)),
               image_to_render_this_cycle)

\* Lines 893-924: the artwork of the snapshot. fetch_ok: whether
\* _fetch_and_resize_image returns an image.
ResolveArtwork(s, snapshot, art_url_currently_in_cache, image_currently_in_cache, fetch_ok) ==
    LET target_art_url_for_current_track == snapshot.album_art_url
        s0 == Targeted(s, target_art_url_for_current_track,
                       art_url_currently_in_cache, image_currently_in_cache)
    IN  IF Truthy(target_art_url_for_current_track)
        THEN IF ~NeedsFetch(snapshot, art_url_currently_in_cache, image_currently_in_cache)
             THEN Pasted(s0, image_currently_in_cache)
             ELSE CommitArtwork(CollaboratorCall(s0, "_fetch_and_resize_image"),
                                target_art_url_for_current_track, fetch_ok)
        ELSE Pasted(IF s0.album_art_image # None \/ s0.last_album_art_url # None
                    THEN [s0 EXCEPT !.album_art_image = None, !.last_album_art_url = None]
                    ELSE s0,
                    None)

\* Lines 770-781: the snapshot the tick draws, given the two values taken
\* from the queue (NoTrack: none).
Snapshot(s, initial_data_from_queue_due_to_event, data_from_queue_post_activate) ==
    IF data_from_queue_post_activate # NoTrack
    THEN data_from_queue_post_activate
    ELSE IF initial_data_from_queue_due_to_event # NoTrack
    THEN initial_data_from_queue_due_to_event
    ELSE s.current_track_info

\* Lines 770-1180: the snapshot and the drawing, given the two values taken
\* from the queue (NoTrack: none).
display_finish(s, perform_full_refresh_this_cycle, initial_data_from_queue_due_to_event, data_from_queue_post_activate, fetch_ok) ==
    LET current_track_info_snapshot ==
            Snapshot(s, initial_data_from_queue_due_to_event, data_from_queue_post_activate)
        art_url_currently_in_cache == s.last_album_art_url
        image_currently_in_cache == s.album_art_image
        s0 == RefreshSeen(s, perform_full_refresh_this_cycle,
                          current_track_info_snapshot)
    IN  IF current_track_info_snapshot = NoTrack
           \/ current_track_info_snapshot.title = "Nothing Playing"
        THEN NothingPlayingBranch(s0, perform_full_refresh_this_cycle)
        ELSE LET s4 == Seen([s0 EXCEPT !.is_currently_showing_nothing_playing = FALSE,
                                       !.nothing_playing_elapsed = NoNumber],
                            "branch", "track")
             IN  IF ~s4.is_music_display_active /\ ~perform_full_refresh_this_cycle
                 THEN s4
                 ELSE Canvas(ResolveArtwork(s4, current_track_info_snapshot,
                                            art_url_currently_in_cache,
                                            image_currently_in_cache, fetch_ok),
                             {"draw", "draw_text", "update_display"})

\* Lines 741-756: the take on the event flag, which is cleared.
display_take_on_flag(s) ==
    LET first == IF s.needs_immediate_full_refresh THEN TakeFromQueue(s)
                 ELSE [value |-> NoTrack, state |-> s]
    IN  [value |-> first.value,
         state |-> [first.state EXCEPT !.needs_immediate_full_refresh = FALSE]]

\* Lines 741-1180, run without interruption: the refresh decision, the
\* re-activation and the takes, the snapshot and the drawing.
display_render(s, force_clear, connect_ok, latest_data, fetch_ok) ==
    LET perform_full_refresh_this_cycle ==
            force_clear \/ s.needs_immediate_full_refresh
        first == display_take_on_flag(s)
        s2 == IF perform_full_refresh_this_cycle
              THEN activate_music_display(
                       Canvas(Seen(first.state, "full_refresh", TRUE), {"clear"}),
                       connect_ok, latest_data)
              ELSE first.state
        second == IF perform_full_refresh_this_cycle THEN TakeFromQueue(s2)
                  ELSE [value |-> NoTrack, state |-> s2]
        drain == [done |-> TRUE,
                  left |-> ~QueueEmpty(second.state.ytm_event_data_queue),
                  from_queue |-> first.value # NoTrack \/ second.value # NoTrack]
        taken == [done |-> TRUE,
                  writer |-> /\ perform_full_refresh_this_cycle
                             /\ activation_sync(first.state, connect_ok,
                                                 latest_data).call # "none",
                  stale |-> Snapshot(second.state, first.value, second.value)
                                # second.state.current_track_info]
        returned == IF s2.raised THEN s2
                    ELSE With(Seen(Seen(second.state, "drain", drain), "snapshot", taken),
                              LAMBDA s3 : display_finish(
                                              s3, perform_full_refresh_this_cycle,
                                              first.value, second.value, fetch_ok))
    IN  With(returned,
             LAMBDA after :
                 Seen(after, "priority",
                      [done |-> TRUE,
                       entry_active |-> s.render_seen.priority.entry_active,
                       after |-> after.music_priority_active]))

(***************************************************************************)
(* Inputs of the handlers                                                  *)
(***************************************************************************)

\* The Spotify snapshots of a run that does not watch the store: Song1
\* playing, Song1 paused, and no data.
SpotifyFewSnapshots == {SpotifyBase, [SpotifyBase EXCEPT !.is_playing = FALSE], NoData}

\* What the Spotify client reports in this run.
SpotifyFeed == IF scope = "store" THEN SpotifySnapshots ELSE SpotifyFewSnapshots

\* The YTM snapshots of a run that watches the artwork cache: two songs
\* with different thumbnails, and no data.
YTMArtSnapshots ==
    {YTMTrack("Song1", <<[url |-> "A"]>>, 1), YTMTrack("Song2", <<[url |-> "B"]>>, 1),
     NoData}

\* The YTM snapshots of a run that watches the lock only: one song, and no
\* data.
YTMFewSnapshots == {YTMTrack("Song1", <<[url |-> "A"]>>, 1), NoData}

\* What the YTM client reports in this run.
YTMFeed ==
    IF scope = "store" THEN YTMSnapshots
    ELSE IF scope = "art" THEN YTMArtSnapshots
    ELSE IF scope = "deadlock" THEN YTMFewSnapshots
    ELSE YTMQueueSnapshots

\* The exceptions of client calls made outside a try block that this run
\* lets happen: none, unless the run watches the poll thread.
ClientErrors == IF scope = "poll" THEN {Raises} ELSE {}
ConnectErrors == IF scope = "poll" THEN {ConnectRaises} ELSE {}
AuthErrors == IF scope = "poll" THEN {AuthRaises} ELSE {}

\* The results of the client calls of activate_music_display in state s:
\* connect_client is called only while disconnected, get_current_track only
\* once connected.
SyncInputs(s) ==
    IF ~(ytm /\ preferred_source = "ytm")
    THEN {[connect_ok |-> TRUE, latest_data |-> NoData]}
    ELSE {[connect_ok |-> TRUE, latest_data |-> d] : d \in YTMFeed \cup ClientErrors}
         \cup IF s.ytm_connected THEN {}
              ELSE {[connect_ok |-> FALSE, latest_data |-> d] :
                        d \in {NoData} \cup ConnectErrors}

\* The results of the client calls of one YTM poll iteration in state s.
PollInputs(s) ==
    IF s.ytm_connected
    THEN {[connect_ok |-> TRUE, ytm_track_data |-> d] : d \in YTMFeed \cup {Raises}}
    ELSE IF s.is_music_display_active
    THEN {[connect_ok |-> TRUE, ytm_track_data |-> d] : d \in YTMFeed \cup ClientErrors}
         \cup {[connect_ok |-> FALSE, ytm_track_data |-> d] :
                   d \in {NoData} \cup ConnectErrors}
    ELSE {[connect_ok |-> FALSE, ytm_track_data |-> NoData]}

\* The results of the client calls of one Spotify poll iteration.
SpotifyPollInputs ==
    {[authenticated |-> FALSE, spotify_track |-> d] : d \in {NoData} \cup AuthErrors}
    \cup {[authenticated |-> TRUE, spotify_track |-> d] :
              d \in SpotifyFeed \cup {Raises}}

(***************************************************************************)
(* Actions of Spec                                                         *)
(***************************************************************************)

frame_vars == <<config_vars, thread_vars, scroll_vars, scope, bctx>>

\* Line 603 and line 476 after an iteration that left state r: the thread
\* is gone if an exception escaped the iteration; else it sleeps, tests
\* stop_event and leaves the loop or starts the next iteration.
IterationEnd(r) ==
    IF r.raised THEN "crashed" ELSE IF stop_event THEN "done" ELSE "body"

\* The plugin system's thread is outside display(): it is idle, or it
\* waits in the join of stop_polling.
HostOutsideDisplay == display_pc \in {"idle", "joining"}

poll_frame_vars == <<config_vars, stop_event, poll_thread, host_calls, scroll_vars, scope, bctx, display_pc>>

\* Lines 470-476: started thread i tests self.enabled, then stop_event.
PollEntryOf(i) ==
    /\ i \in DOMAIN poll_threads
    /\ poll_threads[i] = "entry"
    /\ poll_threads' = [poll_threads EXCEPT ![i] =
                            IF ~enabled \/ stop_event THEN "done" ELSE "body"]
    /\ UNCHANGED <<poll_frame_vars, state_vars>>

\* One iteration of the loop of thread i with Spotify preferred: lines
\* 477-556, the sleep of line 603 and the test of line 476.
PollSpotifyOf(i) ==
    /\ enabled /\ HostOutsideDisplay
    /\ preferred_source = "spotify" /\ spotify
    /\ i \in DOMAIN poll_threads
    /\ poll_threads[i] = "body"
    /\ \E in \in SpotifyPollInputs :
           LET r == poll_spotify(Now, in.authenticated, in.spotify_track)
           IN  /\ Becomes(r)
               /\ poll_threads' = [poll_threads EXCEPT ![i] = IterationEnd(r)]
    /\ UNCHANGED poll_frame_vars

\* One iteration of the loop of thread i with YTM preferred: lines 477-479
\* and 558-601, the sleep of line 603 and the test of line 476.
PollYTMOf(i) ==
    /\ enabled /\ HostOutsideDisplay
    /\ preferred_source = "ytm" /\ ytm
    /\ i \in DOMAIN poll_threads
    /\ poll_threads[i] = "body"
    /\ \E in \in PollInputs(Now) :
           LET r == poll_ytm(Now, in.connect_ok, in.ytm_track_data)
           IN  /\ Becomes(r)
               /\ poll_threads' = [poll_threads EXCEPT ![i] = IterationEnd(r)]
    /\ UNCHANGED poll_frame_vars

\* A started thread enters _poll_music_data.
PollEntry == \E i \in DOMAIN poll_threads : PollEntryOf(i)

\* One iteration of _poll_music_data's loop with Spotify preferred.
PollSpotify == \E i \in DOMAIN poll_threads : PollSpotifyOf(i)

\* One iteration of _poll_music_data's loop with YTM preferred.
PollYTM == \E i \in DOMAIN poll_threads : PollYTMOf(i)

\* The YTM client delivers a state update to its callback.
PushEvent ==
    /\ ytm /\ display_pc = "idle"
    /\ \E ytm_data \in YTMFeed :
           Becomes(handle_ytm_direct_update(Now, ytm_data))
    /\ UNCHANGED <<frame_vars, display_pc>>

\* The plugin system calls display(force_clear): lines 726-739.
DisplayEnter ==
    /\ display_pc = "idle"
    /\ \E in \in IF is_music_display_active
                 THEN {[connect_ok |-> TRUE, latest_data |-> NoData]}
                 ELSE SyncInputs(Now) :
           LET r == display_enter(Now, in.connect_ok, in.latest_data)
           IN  /\ Becomes(r)
               /\ display_pc' = IF r.raised THEN "idle" ELSE "entered"
    /\ UNCHANGED frame_vars

\* display(), lines 741-1180.
DisplayRender ==
    /\ display_pc = "entered"
    /\ \E force_clear \in BOOLEAN, fetch_ok \in BOOLEAN :
         \E in \in IF force_clear \/ needs_immediate_full_refresh
                   THEN SyncInputs(Now)
                   ELSE {[connect_ok |-> TRUE, latest_data |-> NoData]} :
           Becomes(display_render(Now, force_clear, in.connect_ok, in.latest_data,
                                  fetch_ok))
    /\ display_pc' = "idle"
    /\ UNCHANGED frame_vars

\* The display controller leaves the music mode.
Deactivate ==
    /\ display_pc = "idle"
    /\ is_music_display_active
    /\ Becomes(deactivate_music_display(Now))
    /\ UNCHANGED <<frame_vars, display_pc>>

\* The YTM companion drops the connection.
ConnectionLost ==
    /\ display_pc = "idle"
    /\ ytm_connected
    /\ Becomes([Now EXCEPT !.ytm_connected = FALSE])
    /\ UNCHANGED <<frame_vars, display_pc>>

\* One second passes.
Tick ==
    /\ display_pc = "idle"
    /\ \/ music_priority_active /\ priority_elapsed <= priority_duration_seconds
       \/ nothing_playing_elapsed # NoNumber
          /\ nothing_playing_elapsed < nothing_playing_timeout_seconds
    /\ Becomes([Now EXCEPT
           !.priority_elapsed =
               IF music_priority_active /\ @ <= priority_duration_seconds
               THEN @ + 1 ELSE @,
           !.nothing_playing_elapsed =
               IF @ # NoNumber /\ @ < nothing_playing_timeout_seconds
               THEN @ + 1 ELSE @])
    /\ UNCHANGED <<frame_vars, display_pc>>

(***************************************************************************)
(* The poll thread's lifecycle                                             *)
(***************************************************************************)

\* The threads that start_polling may create in a run.
MaxPollThreads == 2

\* self.poll_thread and self.poll_thread.is_alive()
PollThreadAlive ==
    poll_thread # 0 /\ poll_threads[poll_thread] \in {"entry", "body"}

\* Lines 683-697, called by the method named caller.
start_polling(caller) ==
    /\ host_calls' = host_calls \cup {caller}
    /\ IF enabled /\ ~PollThreadAlive /\ (spotify \/ ytm)
       THEN /\ stop_event' = FALSE
            /\ poll_threads' = Append(poll_threads, "entry")
            /\ poll_thread' = Len(poll_threads) + 1
       ELSE UNCHANGED <<stop_event, poll_threads, poll_thread>>

host_frame_vars == <<config_vars, state_vars, scroll_vars, scope, bctx, display_pc>>

\* The plugin system calls start_polling().
StartPolling ==
    /\ display_pc = "idle"
    /\ Len(poll_threads) < MaxPollThreads
    /\ start_polling("start_polling")
    /\ UNCHANGED host_frame_vars

\* The plugin system calls update(): lines 717-724.
Update ==
    /\ display_pc = "idle"
    /\ Len(poll_threads) < MaxPollThreads
    /\ IF enabled /\ ~PollThreadAlive
       THEN start_polling("update")
       ELSE /\ host_calls' = host_calls \cup {"update"}
            /\ UNCHANGED <<stop_event, poll_threads, poll_thread>>
    /\ UNCHANGED host_frame_vars

\* stop_polling() up to the join: lines 699-704.
StopPollingSet ==
    /\ display_pc = "idle"
    /\ display_pc' = "joining"
    /\ stop_event' = TRUE
    /\ host_calls' = host_calls \cup {"stop_polling"}
    /\ UNCHANGED <<config_vars, state_vars, poll_threads, poll_thread, scroll_vars, scope, bctx>>

\* stop_polling() from the return of the join: lines 704-715. The join
\* returns when the thread has ended, or after polling_interval + 1 seconds
\* with the thread still in an iteration.
StopPollingJoined ==
    /\ display_pc = "joining"
    /\ display_pc' = "idle"
    /\ poll_thread' = 0
    /\ Becomes(IF ytm /\ ytm_connected
               THEN Called([Now EXCEPT !.ytm_connected = FALSE], "ytm")
               ELSE Now)
    /\ UNCHANGED <<config_vars, stop_event, poll_threads, host_calls, scroll_vars, scope, bctx>>

(***************************************************************************)
(* The title scroller of display(): lines 855-870 and 975-1022             *)
(***************************************************************************)

\* The largest configured speed and pause length, and the longest title.
MaxSpeed == 3
MaxPauseFrames == 5
MaxTitleLen == 4

\* text_area_width of line 889 in pixels, as the display's size gives it.
text_area_width == 12

\* The width of one character of the title font, the 6 of line 1013.
CharWidth == 6

\* display_manager.get_text_width(title, font_title), line 975
get_text_width(title) == CharWidth * Len(title)

\* A text is the sequence of its characters; the characters of a title are
\* numbered from 1, the separator ('   ', line 84) is three 0 and the "..."
\* of line 1013 three -1.
Separator == <<0, 0, 0>>
Ellipsis == <<-1, -1, -1>>
Titles == {[i \in 1..n |-> i] : n \in 1..MaxTitleLen}

\* self.scroll_config['title'] when the configuration has no 'scroll' key:
\* line 84.
DefaultScrollConfig ==
    [enabled |-> TRUE, speed |-> 5, separator |-> Separator, initial_pause_frames |-> 0, end_pause_frames |-> 0]

\* self.scroll_config['title'] as _load_config reads it: lines 150-162.
ScrollConfigs ==
    [enabled : BOOLEAN, speed : 1..MaxSpeed, separator : {Separator}, initial_pause_frames : 0..MaxPauseFrames, end_pause_frames : 0..MaxPauseFrames]

\* The title's scroll state as __init__ sets it: lines 70, 73, 90-92.
ZeroScrollState ==
    [scroll_position_title |-> 0, title_scroll_tick |-> 0, title_initial_pause_counter |-> 0, title_end_pause_counter |-> 0, title_at_end |-> FALSE]

\* title[k:] and title[:k] of Python, for k >= 0
SliceFrom(text, k) == SubSeq(text, k + 1, Len(text))
SliceTo(text, k) == SubSeq(text, 1, IF k < Len(text) THEN k ELSE Len(text))

\* title[p:] + separator + title[:p], lines 993 and 1003
Rotation(title, cfg, p) == SliceFrom(title, p) \o cfg.separator \o SliceTo(title, p)

\* The reset of a full refresh, lines 855-870: the position, both pause
\* counters and the at-end marker; title_scroll_tick is not assigned.
FullRefreshReset(st) ==
    [st EXCEPT !.scroll_position_title = 0, !.title_initial_pause_counter = 0, !.title_end_pause_counter = 0, !.title_at_end = FALSE]

\* The reset of the "Nothing Playing" branch, lines 838-842: the position
\* and the tick counter.
NothingPlayingReset(st) ==
    [st EXCEPT !.scroll_position_title = 0, !.title_scroll_tick = 0]

\* Lines 985-1003: the end of the text. The result is the scroll state and
\* the text to display.
ScrollEnd(st, cfg, title) ==
    LET max_scroll_pos == Len(title) - 1
    IN  IF st.scroll_position_title >= max_scroll_pos
        THEN LET s1 == IF ~st.title_at_end
                       THEN [st EXCEPT !.title_at_end = TRUE, !.title_end_pause_counter = 0]
                       ELSE st
             IN  IF s1.title_end_pause_counter < cfg.end_pause_frames
                 THEN [state |-> [s1 EXCEPT !.title_end_pause_counter = @ + 1],
                       text |-> Rotation(title, cfg, s1.scroll_position_title)]
                 ELSE [state |-> FullRefreshReset(s1),
                       text |-> title \o cfg.separator \o SliceTo(title, 0)]
        ELSE [state |-> [st EXCEPT !.title_at_end = FALSE],
              text |-> Rotation(title, cfg, st.scroll_position_title)]

\* Lines 1006-1010 with the comparison of line 1007 made strict.
ScrollAdvanceLate(st, cfg, title) ==
    LET s1 == [st EXCEPT !.title_scroll_tick = @ + 1]
    IN  IF s1.title_scroll_tick > cfg.speed
        THEN [s1 EXCEPT !.scroll_position_title =
                            IF ~s1.title_at_end \/ s1.title_end_pause_counter >= cfg.end_pause_frames
                            THEN (@ + 1) % Len(title) ELSE @,
                        !.title_scroll_tick = 0]
        ELSE s1

\* Lines 1006-1010: the tick counter and the advance of the position.
ScrollAdvance(st, cfg, title) ==
    LET s1 == [st EXCEPT !.title_scroll_tick = @ + 1]
    IN  IF s1.title_scroll_tick >= cfg.speed
        THEN [s1 EXCEPT !.scroll_position_title =
                            IF ~s1.title_at_end \/ s1.title_end_pause_counter >= cfg.end_pause_frames
                            THEN (@ + 1) % Len(title) ELSE @,
                        !.title_scroll_tick = 0]
        ELSE s1

\* The title is wider than the text area and its scrolling is enabled: the
\* condition of line 978.
Scrolls(cfg, title) == get_text_width(title) > text_area_width /\ cfg.enabled

\* Lines 975-1022 with an initial pause that is one tick short.
ScrollTitleShortPause(st, cfg, title) ==
    IF Scrolls(cfg, title)
    THEN IF st.title_initial_pause_counter + 1 < cfg.initial_pause_frames
         THEN [state |-> [st EXCEPT !.title_initial_pause_counter = @ + 1], text |-> title]
         ELSE LET r == ScrollEnd(st, cfg, title)
              IN  [state |-> ScrollAdvance(r.state, cfg, title), text |-> r.text]
    ELSE IF get_text_width(title) > text_area_width
         THEN [state |-> NothingPlayingReset(st),
               text |-> SliceTo(title, text_area_width \div CharWidth) \o Ellipsis]
         ELSE [state |-> ZeroScrollState, text |-> title]

\* Lines 975-1022: the scroll step of one render tick for the title.
ScrollTitle(st, cfg, title) ==
    IF Scrolls(cfg, title)
    THEN IF st.title_initial_pause_counter < cfg.initial_pause_frames
         THEN [state |-> [st EXCEPT !.title_initial_pause_counter = @ + 1], text |-> title]
         ELSE LET r == ScrollEnd(st, cfg, title)
              IN  [state |-> ScrollAdvance(r.state, cfg, title), text |-> r.text]
    ELSE IF get_text_width(title) > text_area_width
         THEN [state |-> NothingPlayingReset(st),
               text |-> SliceTo(title, text_area_width \div CharWidth) \o Ellipsis]
         ELSE [state |-> ZeroScrollState, text |-> title]

\* The width of one character of the artist and album font, the 5 of line
\* 1142.
AlbumCharWidth == 5

\* display_manager.get_text_width(album, font_artist_album), line 1087
get_album_width(album) == AlbumCharWidth * Len(album)

\* The album's scroll state as __init__ sets it: lines 72, 80, 96-98.
ZeroAlbumScrollState ==
    [scroll_position_album |-> 0, album_scroll_tick |-> 0, album_initial_pause_counter |-> 0, album_end_pause_counter |-> 0, album_at_end |-> FALSE]

\* The reset of a full refresh, lines 860 and 868-870; album_scroll_tick is
\* not assigned.
AlbumFullRefreshReset(st) ==
    [st EXCEPT !.scroll_position_album = 0, !.album_initial_pause_counter = 0, !.album_end_pause_counter = 0, !.album_at_end = FALSE]

\* The reset of the "Nothing Playing" branch, lines 841 and 844.
AlbumNothingPlayingReset(st) ==
    [st EXCEPT !.scroll_position_album = 0, !.album_scroll_tick = 0]

\* Lines 1109-1128: the end of the album text. The result is the scroll
\* state, the text to display and the offset its rotation was built with.
AlbumScrollEnd(st, cfg, album) ==
    LET max_scroll_pos == Len(album) - 1
    IN  IF st.scroll_position_album >= max_scroll_pos
        THEN LET s1 == IF ~st.album_at_end
                       THEN [st EXCEPT !.album_at_end = TRUE, !.album_end_pause_counter = 0]
                       ELSE st
             IN  IF s1.album_end_pause_counter < cfg.end_pause_frames
                 THEN [state |-> [s1 EXCEPT !.album_end_pause_counter = @ + 1],
                       text |-> Rotation(album, cfg, s1.scroll_position_album),
                       offset |-> s1.scroll_position_album]
                 ELSE [state |-> AlbumFullRefreshReset(s1),
                       text |-> album \o cfg.separator \o SliceTo(album, 0),
                       offset |-> 0]
        ELSE [state |-> [st EXCEPT !.album_at_end = FALSE],
              text |-> Rotation(album, cfg, st.scroll_position_album),
              offset |-> st.scroll_position_album]

\* Lines 1131-1135: the tick counter and the advance of the position.
AlbumScrollAdvance(st, cfg, album) ==
    LET s1 == [st EXCEPT !.album_scroll_tick = @ + 1]
    IN  IF s1.album_scroll_tick >= cfg.speed
        THEN [s1 EXCEPT !.scroll_position_album =
                            IF ~s1.album_at_end \/ s1.album_end_pause_counter >= cfg.end_pause_frames
                            THEN (@ + 1) % Len(album) ELSE @,
                        !.album_scroll_tick = 0]
        ELSE s1

\* Lines 1087-1147: the scroll step of one render tick for the album
\* (offset NoNumber: no rotation is built).
ScrollAlbum(st, cfg, album) ==
    IF get_album_width(album) <= text_area_width
    THEN [state |-> ZeroAlbumScrollState, text |-> album, offset |-> NoNumber]
    ELSE IF cfg.enabled
    THEN IF st.album_initial_pause_counter < cfg.initial_pause_frames
         THEN [state |-> [st EXCEPT !.album_initial_pause_counter = @ + 1],
               text |-> album, offset |-> NoNumber]
         ELSE LET r == AlbumScrollEnd(st, cfg, album)
              IN  [state |-> AlbumScrollAdvance(r.state, cfg, album),
                   text |-> r.text, offset |-> r.offset]
    ELSE [state |-> AlbumNothingPlayingReset(st),
          text |-> SliceTo(album, text_area_width \div AlbumCharWidth) \o Ellipsis,
          offset |-> NoNumber]

\* The title is not wider than the text area: the else of line 1016.
Fits(title) == ~(get_text_width(title) > text_area_width)

\* The offset is at or past the last character: the condition of line 985.
AtEnd(st, title) == st.scroll_position_title >= Len(title) - 1

\* The scroll step takes lines 995-1000: the initial pause is over, the
\* offset is at the end and the end pause is used up.
WrapReset(st, cfg, title) ==
    /\ Scrolls(cfg, title)
    /\ st.title_initial_pause_counter >= cfg.initial_pause_frames
    /\ AtEnd(st, title)
    /\ (IF st.title_at_end THEN st.title_end_pause_counter ELSE 0) >= cfg.end_pause_frames

\* What a render tick that draws no title leaves as its observation.
NothingSeen(st, since) ==
    [drawn |-> FALSE, title |-> <<>>, text |-> <<>>, before |-> st, full_refresh |-> FALSE, changed |-> FALSE, ticks |-> 0, since_reset |-> since, end_ticks |-> 0, wrap_due |-> FALSE]

\* No initial pause is pending and nothing else of the scroll state is set.
Rested(st, cfg) ==
    /\ st.title_initial_pause_counter >= cfg.initial_pause_frames
    /\ [st EXCEPT !.title_initial_pause_counter = 0] = ZeroScrollState

(***************************************************************************)
(* Initial state: the plugin after __init__                                *)
(***************************************************************************)

\* The values of the 'preferred_source' key that configurations carry.
ConfiguredSources == {"spotify", "ytm", "YTM", "tidal"}

\* The configuration dicts: the keys _load_config and __init__ read.
Configs ==
    [enabled : BOOLEAN, preferred_source : ConfiguredSources,
     music_priority_mode : BOOLEAN]

\* The configuration dicts with the source spelled as the code compares it.
PlainConfigs == {c \in Configs : c.preferred_source # "YTM"}

\* str.lower() on the values of ConfiguredSources (line 140).
Lower(str) == IF str = "YTM" THEN "ytm" ELSE str

\* _load_config without the rejection of lines 145-148: a source that is
\* neither spotify nor ytm leaves the default source and the plugin enabled.
LoadConfigAcceptingAnySource(c) ==
    IF ~c.enabled THEN [enabled |-> FALSE, preferred_source |-> "spotify"]
    ELSE LET configured_source == Lower(c.preferred_source)
         IN  IF configured_source \in {"spotify", "ytm"}
             THEN [enabled |-> TRUE, preferred_source |-> configured_source]
             ELSE [enabled |-> TRUE, preferred_source |-> "spotify"]

\* Lines 126-168: self.enabled and self.preferred_source after _load_config;
\* preferred_source keeps the default of line 63 unless the configured one
\* is accepted.
load_config(c) ==
    IF ~c.enabled THEN [enabled |-> FALSE, preferred_source |-> "spotify"]
    ELSE LET configured_source == Lower(c.preferred_source)
         IN  IF configured_source \in {"spotify", "ytm"}
             THEN [enabled |-> TRUE, preferred_source |-> configured_source]
             ELSE [enabled |-> FALSE, preferred_source |-> "spotify"]

\* _initialize_clients where both clients are created whenever the plugin is
\* enabled.
InitializeBothClients(loaded, spotify_created, ytm_created) ==
    [spotify |-> loaded.enabled /\ spotify_created,
     ytm |-> loaded.enabled /\ ytm_created]

\* Lines 170-202: which clients exist after _initialize_clients.
\* spotify_created, ytm_created: the client's constructor did not raise.
initialize_clients(loaded, spotify_created, ytm_created) ==
    IF ~loaded.enabled THEN [spotify |-> FALSE, ytm |-> FALSE]
    ELSE [spotify |-> loaded.preferred_source = "spotify" /\ spotify_created,
          ytm |-> loaded.preferred_source = "ytm" /\ ytm_created]

\* __init__ (lines 52-124) on configuration dict c.
Construct(c, spotify_created, ytm_created) ==
    LET loaded == load_config(c)
        clients == initialize_clients(loaded, spotify_created, ytm_created)
    IN  [config |-> c,
         enabled |-> loaded.enabled,
         preferred_source |-> loaded.preferred_source,
         music_priority_mode |-> c.music_priority_mode,
         spotify |-> clients.spotify,
         ytm |-> clients.ytm]

\* __init__, _load_config and _initialize_clients (lines 52-202): the plugin
\* is enabled with the client of its preferred source, or has no client.
Configurations ==
    {Construct(c, spotify_created, ytm_created) :
        c \in PlainConfigs, spotify_created \in BOOLEAN, ytm_created \in BOOLEAN}

Configured(c) ==
    /\ config = c.config
    /\ enabled = c.enabled
    /\ preferred_source = c.preferred_source
    /\ music_priority_mode = c.music_priority_mode
    /\ spotify = c.spotify
    /\ ytm = c.ytm

InitState ==
    /\ current_track_info = NoTrack
    /\ current_source = "NONE"
    /\ album_art_image = None
    /\ last_album_art_url = None
    /\ needs_immediate_full_refresh = FALSE
    /\ ytm_event_data_queue = <<>>
    /\ is_music_display_active = FALSE
    /\ is_currently_showing_nothing_playing = FALSE
    /\ music_priority_active = FALSE
    /\ priority_elapsed = 0
    /\ nothing_playing_elapsed = NoNumber
    /\ ytm_connected = FALSE
    /\ client_calls = IF spotify THEN {"spotify"} ELSE {}
    /\ track_info_lock = "free"
    /\ locked_calls = {}
    /\ escapes = {}
    /\ stop_event = FALSE
    /\ poll_threads = <<>>
    /\ poll_thread = 0
    /\ host_calls = {}
    /\ display_pc = "idle"
    /\ last = NoUpdate
    /\ bridge = [pubs |-> 0, latest |-> NoTrack, takes |-> <<>>, failed |-> FALSE]
    /\ scenario = [pos |-> 0, kinds |-> <<>>, raised |-> <<>>]
    /\ render_seen = NoRender
    /\ poll_seen = NoPoll
    /\ refresh_pending = NoRefresh
    /\ scroll_config \in IF scope \in {"scroll", "album"} THEN ScrollConfigs
                         ELSE {DefaultScrollConfig}
    /\ scroll_state = ZeroScrollState
    /\ album_scroll_state = ZeroAlbumScrollState
    /\ scroll_seen = NothingSeen(ZeroScrollState, 0)

\* The store and its classifier: every source configuration without the
\* priority mode, no time passing.
Init ==
    /\ \E c \in Configurations : ~c.music_priority_mode /\ Configured(c)
    /\ scope = "store"
    /\ InitState
    /\ bctx = <<>>

Next ==
    \/ Update
    \/ PollEntry
    \/ PollSpotify
    \/ PollYTM
    \/ PushEvent
    \/ DisplayEnter
    \/ DisplayRender
    \/ Deactivate
    \/ ConnectionLost

Spec == Init /\ [][Next]_vars

(***************************************************************************)
(* SpecQueue: the handlers of the hybrid source, the event queue observed  *)
(***************************************************************************)

\* __init__ with YTM preferred and its client created, no priority mode.
HybridConfigured ==
    Configured(Construct([enabled |-> TRUE, preferred_source |-> "ytm",
                          music_priority_mode |-> FALSE], TRUE, TRUE))

InitQueue ==
    /\ HybridConfigured
    /\ scope = "queue"
    /\ InitState
    /\ bctx = <<>>

NextQueue ==
    \/ Update
    \/ PollEntry
    \/ PollYTM
    \/ PushEvent
    \/ DisplayEnter
    \/ DisplayRender
    \/ Deactivate
    \/ ConnectionLost

SpecQueue == InitQueue /\ [][NextQueue]_vars

(***************************************************************************)
(* SpecBridge: the push-callback thread and the render thread, one queue   *)
(* call at a time                                                          *)
(***************************************************************************)

Threads == {"push", "render"}

\* A thread outside _process_ytm_data_update and display().
IdleThread ==
    [pc |-> "idle", info |-> NoTrack, significant |-> FALSE, full |-> FALSE,
     first |-> NoTrack, second |-> NoTrack]

bridge_vars == <<config_vars, thread_vars, scroll_vars, scope, display_pc>>

\* The callback is delivered (lines 411-425) and _process_ytm_data_update
\* runs up to the end of its locked section (lines 204-318).
PushStore ==
    /\ bctx["push"].pc = "idle"
    /\ enabled /\ is_music_display_active /\ preferred_source = "ytm"
    /\ \E ytm_data \in YTMFeed :
           LET r == StoreYTM(Now, YTMSimplifiedInfo(ytm_data))
           IN  /\ Becomes(r.state)
               /\ bctx' = [bctx EXCEPT !["push"] =
                               [IdleThread EXCEPT
                                   !.pc = "empty",
                                   !.info = YTMSimplifiedInfo(ytm_data),
                                   !.significant = r.significant]]
    /\ UNCHANGED bridge_vars

\* Line 323: while not self.ytm_event_data_queue.empty()
PublishEmpty ==
    /\ \E t \in Threads :
           /\ bctx[t].pc = "empty"
           /\ bctx' = [bctx EXCEPT ![t].pc =
                           IF QueueEmpty(ytm_event_data_queue) THEN "put" ELSE "get"]
    /\ UNCHANGED <<bridge_vars, state_vars>>

\* Line 324: get_nowait(). On an empty queue it raises queue.Empty, which
\* line 327 does not catch: the call, and the handler or display() around
\* it, end there.
PublishGet ==
    /\ \E t \in Threads :
           /\ bctx[t].pc = "get"
           /\ IF QueueEmpty(ytm_event_data_queue)
              THEN /\ Becomes([Now EXCEPT !.bridge.failed = TRUE])
                   /\ bctx' = [bctx EXCEPT ![t] = IdleThread]
              ELSE /\ Becomes([Now EXCEPT !.ytm_event_data_queue = Tail(@)])
                   /\ bctx' = [bctx EXCEPT ![t].pc = "empty"]
    /\ UNCHANGED bridge_vars

\* Lines 325-332: put_nowait(simplified_info), a queue.Full caught and the
\* value dropped; then the refresh flag is raised on a significant change
\* and the call returns.
PublishPut ==
    /\ \E t \in Threads :
           /\ bctx[t].pc = "put"
           /\ Becomes([Now EXCEPT
                  !.ytm_event_data_queue =
                      IF QueueFull(@) THEN @ ELSE Append(@, bctx[t].info),
                  !.bridge = BridgePublished(@, bctx[t].info),
                  !.needs_immediate_full_refresh =
                      IF bctx[t].significant THEN TRUE ELSE @])
           /\ bctx' = [bctx EXCEPT ![t].pc = IF t = "push" THEN "idle" ELSE "take2"]
    /\ UNCHANGED bridge_vars

\* display() is called: lines 726-739. A display that is not active yet is
\* activated; no push handler runs before that (line 414).
RenderEnter ==
    /\ bctx["render"].pc = "idle"
    /\ ~is_music_display_active => bctx["push"].pc = "idle"
    /\ \E in \in IF is_music_display_active
                 THEN {[connect_ok |-> TRUE, latest_data |-> NoData]}
                 ELSE SyncInputs(Now) :
           Becomes(display_enter(Now, in.connect_ok, in.latest_data))
    /\ bctx' = [bctx EXCEPT !["render"].pc = "take1"]
    /\ UNCHANGED bridge_vars

\* Lines 741-756: the take on the event flag.
RenderTakeOnFlag ==
    /\ bctx["render"].pc = "take1"
    /\ \E force_clear \in BOOLEAN :
           LET full == force_clear \/ needs_immediate_full_refresh
               first == display_take_on_flag(Now)
           IN  /\ Becomes(first.state)
               /\ bctx' = [bctx EXCEPT !["render"] =
                               [@ EXCEPT !.pc = IF full THEN "sync" ELSE "finish",
                                         !.full = full,
                                         !.first = first.value]]
    /\ UNCHANGED bridge_vars

\* Lines 760-762: activate_music_display() of a full refresh, up to the end
\* of the locked section of its _process_ytm_data_update call; a call that
\* is not published raises the refresh flag and returns.
RenderSync ==
    /\ bctx["render"].pc = "sync"
    /\ \E in \in SyncInputs(Now) :
           LET a == activation_sync(Now, in.connect_ok, in.latest_data)
               info == YTMSimplifiedInfo(a.ytm_data)
               r == StoreYTM(a.state, info)
           IN  IF a.call = "none"
               THEN /\ Becomes(a.state)
                    /\ bctx' = [bctx EXCEPT !["render"].pc = "take2"]
               ELSE IF IsPublished(a.call)
               THEN /\ Becomes(r.state)
                    /\ bctx' = [bctx EXCEPT !["render"] =
                                    [@ EXCEPT !.pc = "empty", !.info = info,
                                              !.significant = r.significant]]
               ELSE /\ Becomes([r.state EXCEPT
                           !.needs_immediate_full_refresh =
                               IF r.significant THEN TRUE ELSE @])
                    /\ bctx' = [bctx EXCEPT !["render"].pc = "take2"]
    /\ UNCHANGED bridge_vars

\* Lines 764-768: the take after the re-activation.
RenderTakePostActivate ==
    /\ bctx["render"].pc = "take2"
    /\ LET second == TakeFromQueue(Now)
       IN  /\ Becomes(second.state)
           /\ bctx' = [bctx EXCEPT !["render"] =
                           [@ EXCEPT !.pc = "finish", !.second = second.value]]
    /\ UNCHANGED bridge_vars

\* Lines 770-1180: the snapshot and the drawing.
RenderFinish ==
    /\ bctx["render"].pc = "finish"
    /\ \E fetch_ok \in BOOLEAN :
           Becomes(display_finish(Now, bctx["render"].full, bctx["render"].first,
                                  bctx["render"].second, fetch_ok))
    /\ bctx' = [bctx EXCEPT !["render"] = IdleThread]
    /\ UNCHANGED bridge_vars

InitBridge ==
    /\ HybridConfigured
    /\ scope = "queue"
    /\ InitState
    /\ bctx = [t \in Threads |-> IdleThread]

NextBridge ==
    \/ PushStore
    \/ PublishEmpty
    \/ PublishGet
    \/ PublishPut
    \/ RenderEnter
    \/ RenderTakeOnFlag
    \/ RenderSync
    \/ RenderTakePostActivate
    \/ RenderFinish

SpecBridge == InitBridge /\ [][NextBridge]_vars

(***************************************************************************)
(* The disabled engine: _load_config left enabled false, because the       *)
(* config says so or because preferred_source is neither "spotify" nor     *)
(* "ytm"; __init__ read music_priority_mode from the config all the same.  *)
(* The host calls update() and display() and time passes.                  *)
(***************************************************************************)

InitDisabled ==
    /\ \E c \in Configurations : ~c.enabled /\ Configured(c)
    /\ scope = "priority"
    /\ InitState
    /\ bctx = <<>>

NextDisabled ==
    \/ Update
    \/ DisplayEnter
    \/ DisplayRender
    \/ Tick

SpecDisabled == InitDisabled /\ [][NextDisabled]_vars

(***************************************************************************)
(* Properties of the track store (Spec)                                    *)
(***************************************************************************)

\* C1: an update that differs from the current TrackInfo only in progress_ms
\* and/or duration_ms is classified Minor and does not write the
\* needs-full-refresh flag, on every path.
ProgressOnlyIsMinor ==
    last.rel = "progress" => last.kind = "Minor" /\ ~last.set_flag

\* A push event that moved only the position has been applied as Minor, the
\* flag still down.
ProgressOnlyIsMinorWitness ==
    /\ last.path = "YTM Event" /\ last.rel = "progress" /\ last.kind = "Minor"
    /\ ~needs_immediate_full_refresh

\* C2: an update that differs from the current TrackInfo in title, artist,
\* album_art_url or is_playing is classified Significant and the
\* needs-full-refresh flag is true when it has been applied, on every path
\* that replaces the current TrackInfo.
SignificantRaisesFlag ==
    last.rel = "significant" => last.kind = "Significant" /\ last.flag_after

\* C3: applying the TrackInfo the store already holds is classified None,
\* does not write the needs-full-refresh flag and leaves the artwork cache
\* untouched, on every path.
SameInfoIsNoChange ==
    last.rel = "same" =>
        last.kind = "None" /\ ~last.set_flag /\ last.art = "untouched"

\* C4: from an unset store, Song1 playing at 1000 ms, then at 2000 ms, then
\* Song2 playing at 0 ms are classified Significant, Minor, Significant, and
\* the first and the third update raise the needs-full-refresh flag, the
\* second does not.
ScenarioKinds ==
    scenario.pos = 3 =>
        /\ scenario.kinds = <<"Significant", "Minor", "Significant">>
        /\ scenario.raised = <<TRUE, FALSE, TRUE>>

\* The three updates of the scenario have been applied.
ScenarioKindsWitness ==
    /\ scenario.pos = 3
    /\ current_track_info.title = "Song2" /\ current_track_info.progress_ms = 0

\* C5: a hybrid snapshot of a track that is not playing (valid title and
\* artist, no ad) is applied as that track with is_playing false, not as the
\* nothing-playing sentinel, and is classified Significant when the store
\* was unset.
PausedKeepsTrack ==
    last.paused =>
        /\ last.info.title = "Song1" /\ last.info.artist = "Ann"
        /\ ~last.info.is_playing
        /\ last.rel = "unset" => last.kind = "Significant"

\* C6: after an update classified Minor or Significant the store holds the
\* incoming TrackInfo, whether or not a full refresh follows.
StoreHoldsIncoming ==
    last.kind \in {"Minor", "Significant"} =>
        /\ current_track_info # NoTrack
        /\ TrackInfoOf(current_track_info) = last.info

\* A Minor update moved the position to 2000 ms; display() has been entered
\* with the refresh flag down and the store shows 2000 ms.
StoreHoldsIncomingWitness ==
    /\ last.kind = "Minor" /\ last.rel = "progress"
    /\ last.info.progress_ms = 2000
    /\ current_track_info.progress_ms = 2000
    /\ ~needs_immediate_full_refresh
    /\ display_pc = "entered"

\* C7: with the image of the current track's URL A cached, an update whose
\* URL differs from A drops the image and makes its URL the cached URL, and
\* an update whose URL is A leaves the cached image and URL untouched, on
\* every path.
ArtCacheInvalidation ==
    /\ last.art_case = "differs" => last.art = "retargeted"
    /\ last.art_case = "same" => last.art = "untouched"

\* C10: every update applied by the push handler or by an activation sync is
\* put into the event queue, and no update applied by the poll loop is.
PublishByOrigin ==
    /\ last.path \in {"YTM Event", "YTM Activate Sync",
                      "YTM Activate Sync (No Data)"} => last.published
    /\ last.path \in {"YTM Poll", "YTM Poll Reconnect Sync", "YTM Reconnect Failed",
                      "Spotify Poll", "Spotify Stop"} => ~last.published

(***************************************************************************)
(* Properties of the event queue (SpecQueue, SpecBridge)                   *)
(***************************************************************************)

\* C8: the event queue never holds more than one value; a take after two
\* publishes with no take in between returns the value published second, and
\* a further take with no publish in between returns nothing.
BridgeHoldsLatestOnly ==
    /\ Len(ytm_event_data_queue) <= 1
    /\ \A i \in 1 .. Len(bridge.takes) :
          /\ bridge.takes[i].after > 0 => bridge.takes[i].got = "latest"
          /\ bridge.takes[i].after = 0 => bridge.takes[i].got = "empty"

\* Two publishes, a take that returned the second value, a take that
\* returned nothing.
BridgeHoldsLatestOnlyWitness ==
    bridge.takes = <<[after |-> 2, got |-> "latest"], [after |-> 0, got |-> "empty"]>>

\* C9: with the publishes of the push callback and of the activation sync
\* and the takes of the render tick interleaved, no publish ends in an
\* error, and when no publish is under way and none was followed by a take,
\* the queue holds the value of the publish that completed last.
PublishesSucceed ==
    /\ ~bridge.failed
    /\ (/\ \A t \in Threads : bctx[t].pc \notin {"empty", "get", "put"}
        /\ bridge.pubs > 0)
       => ytm_event_data_queue = <<bridge.latest>>

(***************************************************************************)
(* SpecPoll: the lifecycle of the poll thread, client calls that raise     *)
(***************************************************************************)

\* __init__ on every configuration dict without the priority mode, whether
\* or not the constructor of a client raises.
InitPoll ==
    /\ \E c \in Configs, spotify_created \in BOOLEAN, ytm_created \in BOOLEAN :
           /\ ~c.music_priority_mode
           /\ Configured(Construct(c, spotify_created, ytm_created))
    /\ scope = "poll"
    /\ InitState
    /\ bctx = <<>>

NextPoll ==
    \/ Update
    \/ StartPolling
    \/ StopPollingSet
    \/ StopPollingJoined
    \/ PollEntry
    \/ PollSpotify
    \/ PollYTM
    \/ DisplayEnter
    \/ DisplayRender

SpecPoll == InitPoll /\ [][NextPoll]_vars

(***************************************************************************)
(* SpecStop: starting and stopping the poll thread, every thread going on  *)
(***************************************************************************)

\* __init__ on a configuration that creates a client; no client call raises.
InitStop ==
    /\ \E c \in Configurations :
           ~c.music_priority_mode /\ (c.spotify \/ c.ytm) /\ Configured(c)
    /\ scope = "stop"
    /\ InitState
    /\ bctx = <<>>

NextStop ==
    \/ Update
    \/ StartPolling
    \/ StopPollingSet
    \/ StopPollingJoined
    \/ PollEntry
    \/ PollSpotify
    \/ PollYTM

\* Every thread that is in _poll_music_data goes on (the client calls
\* return and the sleep ends), and the join of stop_polling returns.
PollFairness ==
    /\ \A i \in 1..MaxPollThreads :
           /\ WF_vars(PollEntryOf(i))
           /\ WF_vars(PollSpotifyOf(i))
           /\ WF_vars(PollYTMOf(i))
    /\ WF_vars(StopPollingJoined)

SpecStop == InitStop /\ [][NextStop]_vars /\ PollFairness

(***************************************************************************)
(* SpecPriority: the handlers with music_priority_mode on and time passing *)
(***************************************************************************)

\* __init__ with music_priority_mode set and the client of the preferred
\* source created.
InitPriority ==
    /\ \E c \in Configurations :
           c.music_priority_mode /\ (c.spotify \/ c.ytm) /\ Configured(c)
    /\ scope = "priority"
    /\ InitState
    /\ bctx = <<>>

NextPriority ==
    \/ Update
    \/ PollEntry
    \/ PollSpotify
    \/ PollYTM
    \/ PushEvent
    \/ DisplayEnter
    \/ DisplayRender
    \/ Deactivate
    \/ ConnectionLost
    \/ Tick

SpecPriority == InitPriority /\ [][NextPriority]_vars

(***************************************************************************)
(* SpecLock: track_info_lock held across steps; the push handler, the poll *)
(* loop and display() as three contexts                                    *)
(***************************************************************************)

LockContexts == {"push", "poll", "render"}

\* The contexts that run _process_ytm_data_update.
UpdateContexts == {"push", "poll"}

\* A context outside its handler, and the locals of a handler.
IdleContext ==
    [pc |-> "idle", info |-> NoTrack, significant |-> FALSE,
     description |-> "none", full |-> FALSE, first |-> NoTrack, second |-> NoTrack]

lock_vars == <<config_vars, thread_vars, scroll_vars, scope, display_pc>>

\* A delivery that passes the guards of lines 414-422, or a poll iteration
\* on a connected client (lines 559-562): _process_ytm_data_update
\* normalizes the snapshot (lines 226-232) and enters the with block of
\* line 237.
UpdateAcquire ==
    /\ \E t \in UpdateContexts :
           /\ bctx[t].pc = "idle"
           /\ track_info_lock = "free"
           /\ enabled /\ preferred_source = "ytm" /\ ytm
           /\ t = "push" => is_music_display_active
           /\ t = "poll" => ytm_connected /\ \E i \in DOMAIN poll_threads : poll_threads[i] = "body"
           /\ \E ytm_data \in YTMFeed :
                  bctx' = [bctx EXCEPT ![t] =
                              [IdleContext EXCEPT
                                  !.pc = "locked",
                                  !.info = YTMSimplifiedInfo(ytm_data),
                                  !.description =
                                      IF t = "push" THEN "YTM Event" ELSE "YTM Poll"]]
           /\ Becomes(Acquire(IF t = "poll" THEN Called(Now, "ytm") ELSE Now, t))
    /\ UNCHANGED lock_vars

\* Lines 238-318: the store is updated and the with block ends.
UpdateLocked ==
    /\ \E t \in UpdateContexts :
           /\ bctx[t].pc = "locked"
           /\ LET r == StoreYTM(Now, bctx[t].info)
              IN  /\ Becomes(Release(r.state))
                  /\ bctx' = [bctx EXCEPT ![t] =
                                  [@ EXCEPT
                                      !.pc = IF IsPublished(bctx[t].description)
                                             THEN "publish" ELSE "flag",
                                      !.significant = r.significant]]
    /\ UNCHANGED lock_vars

\* Lines 320-328: the value is put into the event queue.
UpdatePublish ==
    /\ \E t \in UpdateContexts :
           /\ bctx[t].pc = "publish"
           /\ Becomes([Now EXCEPT
                  !.ytm_event_data_queue = Publish(@, bctx[t].info)])
           /\ bctx' = [bctx EXCEPT ![t].pc = "flag"]
    /\ UNCHANGED lock_vars

\* Lines 330-336: the refresh flag is raised on a significant change and
\* the call returns.
UpdateSetFlag ==
    /\ \E t \in UpdateContexts :
           /\ bctx[t].pc = "flag"
           /\ Becomes(IF bctx[t].significant
                      THEN [Now EXCEPT !.needs_immediate_full_refresh = TRUE]
                      ELSE Now)
           /\ bctx' = [bctx EXCEPT ![t] = IdleContext]
    /\ UNCHANGED lock_vars

\* display() is called: lines 726-739, the activation on entry run without
\* interruption; no push handler runs before it (line 414).
LockRenderEnter ==
    /\ bctx["render"].pc = "idle"
    /\ track_info_lock = "free"
    /\ ~is_music_display_active => bctx["push"].pc = "idle"
    /\ \E in \in IF is_music_display_active
                 THEN {[connect_ok |-> TRUE, latest_data |-> NoData]}
                 ELSE SyncInputs(Now) :
           Becomes(display_enter(Now, in.connect_ok, in.latest_data))
    /\ bctx' = [bctx EXCEPT !["render"].pc = "read_flag"]
    /\ UNCHANGED lock_vars

\* Line 743: the refresh flag is read.
LockRenderReadFlag ==
    /\ bctx["render"].pc = "read_flag"
    /\ \E force_clear \in BOOLEAN :
           bctx' = [bctx EXCEPT !["render"] =
                       [@ EXCEPT
                           !.full = force_clear \/ needs_immediate_full_refresh,
                           !.pc = IF needs_immediate_full_refresh THEN "take1"
                                  ELSE IF force_clear THEN "sync"
                                  ELSE "snapshot"]]
    /\ UNCHANGED <<lock_vars, state_vars>>

\* Lines 746-750: the take on the event flag.
LockRenderTake ==
    /\ bctx["render"].pc = "take1"
    /\ LET first == TakeFromQueue(Now)
       IN  /\ Becomes(first.state)
           /\ bctx' = [bctx EXCEPT !["render"] =
                           [@ EXCEPT !.pc = "clear_flag", !.first = first.value]]
    /\ UNCHANGED lock_vars

\* Line 751: the refresh flag is cleared.
LockRenderClearFlag ==
    /\ bctx["render"].pc = "clear_flag"
    /\ Becomes([Now EXCEPT !.needs_immediate_full_refresh = FALSE])
    /\ bctx' = [bctx EXCEPT !["render"].pc = "sync"]
    /\ UNCHANGED lock_vars

\* Lines 760-768: activate_music_display() of a full refresh, run without
\* interruption, and the take that follows it.
LockRenderSync ==
    /\ bctx["render"].pc = "sync"
    /\ track_info_lock = "free"
    /\ \E in \in SyncInputs(Now) :
           LET second == TakeFromQueue(
                   activate_music_display(Now, in.connect_ok, in.latest_data))
           IN  /\ Becomes(second.state)
               /\ bctx' = [bctx EXCEPT !["render"] =
                               [@ EXCEPT !.pc = "snapshot", !.second = second.value]]
    /\ UNCHANGED lock_vars

\* Lines 776, 780, 784: display() enters a with block to copy the current
\* track info and the artwork cache.
LockRenderAcquire ==
    /\ bctx["render"].pc = "snapshot"
    /\ track_info_lock = "free"
    /\ Becomes(Acquire(Now, "render"))
    /\ bctx' = [bctx EXCEPT !["render"].pc = "locked"]
    /\ UNCHANGED lock_vars

\* Lines 777-1180: the copies are taken, the with block ends, and the
\* frame is drawn.
LockRenderLocked ==
    /\ bctx["render"].pc = "locked"
    /\ \E fetch_ok \in BOOLEAN :
           Becomes(display_finish(Release(Now), bctx["render"].full,
                                  bctx["render"].first, bctx["render"].second,
                                  fetch_ok))
    /\ bctx' = [bctx EXCEPT !["render"] = IdleContext]
    /\ UNCHANGED lock_vars

InitLock ==
    /\ HybridConfigured
    /\ scope = "lock"
    /\ InitState
    /\ bctx = [t \in LockContexts |-> IdleContext]

NextLock ==
    \/ Update
    \/ PollEntry
    \/ UpdateAcquire
    \/ UpdateLocked
    \/ UpdatePublish
    \/ UpdateSetFlag
    \/ LockRenderEnter
    \/ LockRenderReadFlag
    \/ LockRenderTake
    \/ LockRenderClearFlag
    \/ LockRenderSync
    \/ LockRenderAcquire
    \/ LockRenderLocked

SpecLock == InitLock /\ [][NextLock]_vars

(***************************************************************************)
(* SpecDeactivate: the push handler and display() of SpecLock with no     *)
(* poll thread started, and the host calling deactivate_music_display      *)
(* between two calls of display()                                          *)
(***************************************************************************)

\* deactivate_music_display, lines 367-378, called by the thread that calls
\* display(); it enters no with block of track_info_lock.
LockDeactivate ==
    /\ bctx["render"].pc = "idle"
    /\ is_music_display_active
    /\ Becomes(deactivate_music_display(Now))
    /\ UNCHANGED <<lock_vars, bctx>>

InitDeactivate ==
    /\ HybridConfigured
    /\ scope = "lock"
    /\ InitState
    /\ bctx = [t \in LockContexts |-> IdleContext]

NextDeactivate ==
    \/ UpdateAcquire
    \/ UpdateLocked
    \/ UpdatePublish
    \/ UpdateSetFlag
    \/ LockRenderEnter
    \/ LockRenderReadFlag
    \/ LockRenderTake
    \/ LockRenderClearFlag
    \/ LockRenderSync
    \/ LockRenderAcquire
    \/ LockRenderLocked
    \/ LockDeactivate

SpecDeactivate == InitDeactivate /\ [][NextDeactivate]_vars

(***************************************************************************)
(* SpecDeadlock: the contexts of SpecLock, with the request for            *)
(* track_info_lock a step of its own, and an exception inside the with     *)
(* block. A thread that holds the lock goes on to the end of its with      *)
(* block; the holders leave the lock between two uses (the poll loop       *)
(* sleeps polling_interval at line 603, the host paces display(), events   *)
(* come from the network), so a thread that waits for it gets it.          *)
(***************************************************************************)

\* A delivery that passes the guards of lines 414-422, or a poll iteration
\* on a connected client (lines 559-562): _process_ytm_data_update
\* normalizes the snapshot (lines 226-232) and comes to the with statement
\* of line 237.
LockRequest(t) ==
    /\ bctx[t].pc = "idle"
    /\ enabled /\ preferred_source = "ytm" /\ ytm
    /\ t = "push" => is_music_display_active
    /\ t = "poll" => ytm_connected /\ \E i \in DOMAIN poll_threads : poll_threads[i] = "body"
    /\ \E ytm_data \in YTMFeed :
           bctx' = [bctx EXCEPT ![t] =
                       [IdleContext EXCEPT
                           !.pc = "request",
                           !.info = YTMSimplifiedInfo(ytm_data),
                           !.description =
                               IF t = "push" THEN "YTM Event" ELSE "YTM Poll"]]
    /\ Becomes(IF t = "poll" THEN Called(Now, "ytm") ELSE Now)
    /\ UNCHANGED lock_vars

\* Line 237: the with statement gets the lock once it is free.
LockEnter(t) ==
    /\ bctx[t].pc = "request"
    /\ track_info_lock = "free"
    /\ Becomes(Acquire(Now, t))
    /\ bctx' = [bctx EXCEPT ![t].pc = "locked"]
    /\ UNCHANGED lock_vars

PushRequest == LockRequest("push")
PollRequest == LockRequest("poll")
PushEnter == LockEnter("push")
PollEnter == LockEnter("poll")

\* An exception inside the with block of line 237 (json.dumps of lines
\* 238-239): the with statement releases the lock and the call ends.
UpdateRaised ==
    /\ \E t \in UpdateContexts :
           /\ bctx[t].pc = "locked"
           /\ Becomes(Release(Now))
           /\ bctx' = [bctx EXCEPT ![t] = IdleContext]
    /\ UNCHANGED lock_vars

InitDeadlock ==
    /\ HybridConfigured
    /\ scope = "deadlock"
    /\ InitState
    /\ bctx = [t \in LockContexts |-> IdleContext]

NextDeadlock ==
    \/ Update
    \/ PollEntry
    \/ PushRequest
    \/ PollRequest
    \/ PushEnter
    \/ PollEnter
    \/ UpdateLocked
    \/ UpdateRaised
    \/ UpdatePublish
    \/ UpdateSetFlag
    \/ LockRenderEnter
    \/ LockRenderReadFlag
    \/ LockRenderTake
    \/ LockRenderClearFlag
    \/ LockRenderSync
    \/ LockRenderAcquire
    \/ LockRenderLocked

\* Context t gets the lock it waits for.
Enters(t) ==
    /\ track_info_lock = "free"
    /\ bctx[t].pc = IF t = "render" THEN "snapshot" ELSE "request"
    /\ bctx' = [bctx EXCEPT ![t].pc = "locked"]

\* The holder of the lock leaves its with block.
Releases == track_info_lock # "free" /\ track_info_lock' = "free"

LockFairness ==
    /\ \A t \in LockContexts : SF_bctx(Enters(t))
    /\ WF_track_info_lock(Releases)

SpecDeadlock == InitDeadlock /\ [][NextDeadlock]_vars /\ LockFairness

(***************************************************************************)
(* SpecScroll: the render ticks of display() as the title scroller sees    *)
(* them, for every scroll configuration                                    *)
(***************************************************************************)

scroll_frame_vars == <<config_vars, state_vars, thread_vars, scroll_config, display_pc, scope, bctx>>

\* display() with a track to draw, lines 855-870 and 975-1022 of it: the
\* reset of a full refresh, then the scroll step for the title of the
\* snapshot. The observation counts the ticks that scroll before the end of
\* the text, from a scroll state that is at rest.
RenderTitle ==
    /\ \E perform_full_refresh_this_cycle \in BOOLEAN, title \in Titles :
          LET before == IF perform_full_refresh_this_cycle
                        THEN FullRefreshReset(scroll_state)
                        ELSE scroll_state
              r == ScrollTitle(before, scroll_config, title)
              counted == /\ Scrolls(scroll_config, title)
                         /\ before.title_initial_pause_counter >= scroll_config.initial_pause_frames
                         /\ before.scroll_position_title < Len(title) - 1
              ticks == IF ~counted THEN 0
                       ELSE IF Rested(before, scroll_config) THEN 1
                       ELSE IF scroll_seen.ticks > 0 /\ ~perform_full_refresh_this_cycle
                            THEN scroll_seen.ticks + 1
                       ELSE 0
              since == IF perform_full_refresh_this_cycle THEN 0 ELSE scroll_seen.since_reset
              since_reset == IF Fits(title) \/ WrapReset(before, scroll_config, title) THEN 0
                             ELSE IF ~Scrolls(scroll_config, title) THEN since
                             ELSE IF since <= MaxPauseFrames THEN since + 1
                             ELSE since
              continues == /\ scroll_seen.drawn
                           /\ scroll_seen.title = title
                           /\ ~perform_full_refresh_this_cycle
              wrap_due == /\ continues
                          /\ Scrolls(scroll_config, title)
                          /\ scroll_seen.end_ticks = scroll_config.end_pause_frames
                          /\ scroll_config.end_pause_frames = 0 =>
                                 /\ AtEnd(before, title)
                                 /\ before.title_initial_pause_counter >= scroll_config.initial_pause_frames
              end_ticks == IF \/ ~Scrolls(scroll_config, title)
                              \/ ~AtEnd(before, title)
                              \/ before.title_initial_pause_counter < scroll_config.initial_pause_frames
                           THEN 0
                           ELSE IF ~continues THEN 1
                           ELSE IF scroll_seen.end_ticks <= MaxPauseFrames THEN scroll_seen.end_ticks + 1
                           ELSE scroll_seen.end_ticks
          IN  /\ scroll_state' = r.state
              /\ album_scroll_state' = album_scroll_state
              /\ scroll_seen' = [drawn |-> TRUE, title |-> title, text |-> r.text, before |-> before, full_refresh |-> perform_full_refresh_this_cycle, changed |-> scroll_seen.drawn /\ scroll_seen.title # title, ticks |-> ticks, since_reset |-> since_reset, end_ticks |-> end_ticks, wrap_due |-> wrap_due]
    /\ UNCHANGED scroll_frame_vars

\* display() with no track or with the "Nothing Playing" sentinel, lines
\* 838-842 of it.
RenderNothingPlaying ==
    /\ scroll_state' = NothingPlayingReset(scroll_state)
    /\ album_scroll_state' = AlbumNothingPlayingReset(album_scroll_state)
    /\ scroll_seen' = NothingSeen(scroll_state, scroll_seen.since_reset)
    /\ UNCHANGED scroll_frame_vars

InitScroll ==
    /\ \E c \in Configurations : ~c.music_priority_mode /\ c.preferred_source = "ytm" /\ Configured(c)
    /\ scope = "scroll"
    /\ InitState
    /\ bctx = <<>>

NextScroll ==
    \/ RenderTitle
    \/ RenderNothingPlaying

SpecScroll == InitScroll /\ [][NextScroll]_vars

(***************************************************************************)
(* SpecAlbum: the render ticks of display() as the album scroller sees     *)
(* them, for every scroll configuration of the album. An update that       *)
(* changes only the album is not a significant change (lines 245-252), so  *)
(* a tick may find another album without being a full refresh.             *)
(***************************************************************************)

\* Before the first tick that draws an album.
NoAlbumSeen ==
    [drawn |-> FALSE, album |-> <<>>, text |-> <<>>, offset |-> NoNumber,
     before |-> ZeroAlbumScrollState, full_refresh |-> FALSE, shorter |-> FALSE]

\* display() with a track to draw, lines 855-870 and 1082-1147 of it: the
\* reset of a full refresh, then the scroll step for the album of the
\* snapshot.
RenderAlbum ==
    /\ \E perform_full_refresh_this_cycle \in BOOLEAN, album \in Titles :
          \E before \in {IF perform_full_refresh_this_cycle
                         THEN AlbumFullRefreshReset(album_scroll_state)
                         ELSE album_scroll_state} :
            \E r \in {ScrollAlbum(before, scroll_config, album)} :
              /\ album_scroll_state' = r.state
              /\ bctx' = [drawn |-> TRUE, album |-> album, text |-> r.text,
                          offset |-> r.offset, before |-> before,
                          full_refresh |-> perform_full_refresh_this_cycle,
                          shorter |-> bctx.drawn /\ Len(album) < Len(bctx.album)]
    /\ UNCHANGED <<config_vars, state_vars, thread_vars, scroll_config, scroll_state, scroll_seen, display_pc, scope>>

InitAlbum ==
    /\ \E c \in Configurations : ~c.music_priority_mode /\ c.preferred_source = "ytm" /\ Configured(c)
    /\ scope = "album"
    /\ InitState
    /\ bctx = NoAlbumSeen

NextAlbum ==
    \/ RenderAlbum
    \/ RenderNothingPlaying

SpecAlbum == InitAlbum /\ [][NextAlbum]_vars

(***************************************************************************)
(* SpecArt: display() with the push handler running during the fetch of    *)
(* the artwork                                                             *)
(***************************************************************************)

art_vars == <<config_vars, thread_vars, scroll_vars, scope>>

\* Lines 741-899 of display(): the state when the artwork of the snapshot
\* is looked up, the snapshot's URL, and whether the image is to be
\* fetched (lines 900-901).
display_before_fetch(s, force_clear, connect_ok, latest_data) ==
    LET perform_full_refresh_this_cycle ==
            force_clear \/ s.needs_immediate_full_refresh
        first == display_take_on_flag(s)
        s2 == IF perform_full_refresh_this_cycle
              THEN activate_music_display(
                       Canvas(Seen(first.state, "full_refresh", TRUE), {"clear"}),
                       connect_ok, latest_data)
              ELSE first.state
        second == IF perform_full_refresh_this_cycle THEN TakeFromQueue(s2)
                  ELSE [value |-> NoTrack, state |-> s2]
        snapshot == Snapshot(second.state, first.value, second.value)
        drawn == /\ ~s2.raised
                 /\ snapshot # NoTrack
                 /\ snapshot.title # "Nothing Playing"
                 /\ second.state.is_music_display_active \/ perform_full_refresh_this_cycle
    IN  [state |-> Targeted(Seen([second.state EXCEPT
                                      !.is_currently_showing_nothing_playing = FALSE,
                                      !.nothing_playing_elapsed = NoNumber],
                                 "branch", "track"),
                            IF drawn THEN snapshot.album_art_url ELSE None,
                            second.state.last_album_art_url,
                            second.state.album_art_image),
         target |-> IF drawn THEN snapshot.album_art_url ELSE None,
         fetches |-> drawn /\ NeedsFetch(snapshot, second.state.last_album_art_url,
                                         second.state.album_art_image)]

\* display() up to the call of _fetch_and_resize_image (line 901), or to
\* its end when no image is fetched.
ArtRenderStart ==
    /\ display_pc = "entered"
    /\ \E force_clear \in BOOLEAN :
         \E in \in IF force_clear \/ needs_immediate_full_refresh
                   THEN SyncInputs(Now)
                   ELSE {[connect_ok |-> TRUE, latest_data |-> NoData]} :
           \E r \in {display_before_fetch(Now, force_clear, in.connect_ok,
                                         in.latest_data)} :
               IF r.fetches
               THEN /\ Becomes(r.state)
                    /\ bctx' = [target |-> r.target]
                    /\ display_pc' = "fetching"
               ELSE /\ Becomes(display_render(Now, force_clear, in.connect_ok,
                                              in.latest_data, TRUE))
                    /\ bctx' = bctx
                    /\ display_pc' = "idle"
    /\ UNCHANGED art_vars

\* The YTM client delivers a state update while display() waits for the
\* image.
PushDuringFetch ==
    /\ ytm /\ display_pc = "fetching"
    /\ \E ytm_data \in YTMFeed :
           Becomes(handle_ytm_direct_update(Now, ytm_data))
    /\ UNCHANGED <<frame_vars, display_pc>>

\* display() from the return of _fetch_and_resize_image: lines 903-1180.
ArtRenderCommit ==
    /\ display_pc = "fetching"
    /\ \E fetch_ok \in BOOLEAN :
           Becomes(Canvas(CommitArtwork(CollaboratorCall(Now, "_fetch_and_resize_image"),
                                        bctx.target, fetch_ok),
                          {"draw", "draw_text", "update_display"}))
    /\ bctx' = [target |-> None]
    /\ display_pc' = "idle"
    /\ UNCHANGED art_vars

InitArt ==
    /\ HybridConfigured
    /\ scope = "art"
    /\ InitState
    /\ bctx = [target |-> None]

NextArt ==
    \/ PushEvent
    \/ DisplayEnter
    \/ ArtRenderStart
    \/ PushDuringFetch
    \/ ArtRenderCommit

SpecArt == InitArt /\ [][NextArt]_vars

(***************************************************************************)
(* SpecReconnect: the poll loop with the connection of the hybrid source   *)
(* coming and going, each iteration observed                               *)
(***************************************************************************)

\* __init__ with the client of the preferred source created.
InitReconnect ==
    /\ \E c \in Configurations : (c.spotify \/ c.ytm) /\ Configured(c)
    /\ scope = "reconnect"
    /\ InitState
    /\ bctx = <<>>

NextReconnect ==
    \/ Update
    \/ PollEntry
    \/ PollSpotify
    \/ PollYTM
    \/ PushEvent
    \/ DisplayEnter
    \/ DisplayRender
    \/ Deactivate
    \/ ConnectionLost

SpecReconnect == InitReconnect /\ [][NextReconnect]_vars

(***************************************************************************)
(* SpecRefresh: the push handler, the poll loop and display() of the       *)
(* hybrid source, render ticks going on for ever                           *)
(***************************************************************************)

InitRefresh ==
    /\ HybridConfigured
    /\ scope = "refresh"
    /\ InitState
    /\ bctx = <<>>

NextRefresh ==
    \/ Update
    \/ PollEntry
    \/ PollYTM
    \/ PushEvent
    \/ DisplayEnter
    \/ DisplayRender

\* display() returns: of the actions of NextRefresh only DisplayRender
\* takes display_pc from "entered" to "idle", and it is enabled whenever
\* display_pc is "entered".
DisplayReturns == display_pc = "entered" /\ display_pc' = "idle"

\* The plugin system keeps calling display(), and every call returns.
RenderFairness == WF_vars(DisplayEnter) /\ WF_display_pc(DisplayReturns)

SpecRefresh == InitRefresh /\ [][NextRefresh]_vars /\ RenderFairness

(***************************************************************************)
(* SpecMode: _activate_music_priority and _deactivate_music_priority run   *)
(* by the poll thread and by display(), one statement at a time            *)
(***************************************************************************)

\* The calls of the plugin manager that a run follows.
MaxCalls == 4

\* The threads that call _activate_music_priority (lines 345, 518, 571) and
\* _deactivate_music_priority (lines 374, 407, 551, 601, 821): the poll
\* thread, and the plugin system's thread in display() and in
\* deactivate_music_display().
ModeContexts == {"poll", "display"}

mode_frame_vars == <<config_vars, thread_vars, scroll_vars, scope, display_pc>>

\* A thread calls _activate_music_priority or _deactivate_music_priority.
PriorityBegin ==
    /\ Len(bctx.calls) < MaxCalls
    /\ \E c \in ModeContexts, op \in {"activate", "deactivate"} :
           /\ bctx.at[c].pc = "idle"
           /\ bctx' = [bctx EXCEPT !.at[c] = [op |-> op, pc |-> "check"]]
    /\ UNCHANGED <<mode_frame_vars, state_vars>>

\* Lines 382 and 393: the test of self.music_priority_active.
PriorityCheck ==
    /\ \E c \in ModeContexts :
           /\ bctx.at[c].pc = "check"
           /\ bctx' = [bctx EXCEPT !.at[c].pc =
                           IF music_priority_active = (bctx.at[c].op = "deactivate")
                           THEN "set" ELSE "idle"]
    /\ UNCHANGED <<mode_frame_vars, state_vars>>

\* Lines 383-384 and 394: the assignment of self.music_priority_active.
PrioritySet ==
    /\ \E c \in ModeContexts :
           /\ bctx.at[c].pc = "set"
           /\ Becomes([Now EXCEPT
                           !.music_priority_active = (bctx.at[c].op = "activate"),
                           !.priority_elapsed = 0])
           /\ bctx' = [bctx EXCEPT !.at[c].pc = "call"]
    /\ UNCHANGED mode_frame_vars

\* Lines 388-389 and 398-399: set_priority_mode or clear_priority_mode of
\* the plugin manager.
PriorityCall ==
    /\ \E c \in ModeContexts :
           /\ bctx.at[c].pc = "call"
           /\ bctx' = [bctx EXCEPT
                           !.at[c].pc = "idle",
                           !.calls = Append(@, IF bctx.at[c].op = "activate"
                                               THEN "set_priority_mode"
                                               ELSE "clear_priority_mode")]
    /\ UNCHANGED <<mode_frame_vars, state_vars>>

InitMode ==
    /\ \E c \in Configurations :
           c.music_priority_mode /\ (c.spotify \/ c.ytm) /\ Configured(c)
    /\ scope = "mode"
    /\ InitState
    /\ bctx = [at |-> [c \in ModeContexts |-> [op |-> "activate", pc |-> "idle"]],
               calls |-> <<>>]

NextMode ==
    \/ PriorityBegin
    \/ PriorityCheck
    \/ PrioritySet
    \/ PriorityCall

SpecMode == InitMode /\ [][NextMode]_vars

(***************************************************************************)
(* Properties                                                              *)
(***************************************************************************)

\* The fields of the engine a push delivery may write.
SharedFields(s) ==
    <<s.current_track_info, s.current_source, s.album_art_image, s.last_album_art_url, s.needs_immediate_full_refresh, s.ytm_event_data_queue>>

\* C11: a push delivery that arrives while the engine is disabled, while
\* the music display is not active, or while YTM is not the preferred
\* source leaves the current track info, the current source, the artwork
\* cache, the refresh flag and the event queue as they were, whatever the
\* delivered snapshot is.
IgnoredPushChangesNothing ==
    \A ytm_data \in YTMFeed :
        (~enabled \/ ~is_music_display_active \/ preferred_source # "ytm")
            => SharedFields(handle_ytm_direct_update(Now, ytm_data)) = SharedFields(Now)

\* A delivery was dropped while the display was inactive and the engine
\* still held a playing track.
IgnoredPushChangesNothingWitness ==
    /\ last.path = "YTM Event (ignored)"
    /\ ~is_music_display_active
    /\ current_track_info # NoTrack
    /\ current_track_info.is_playing

\* The update paths of each source.
SpotifyPaths == {"Spotify Poll", "Spotify Stop"}
YTMPaths ==
    {"YTM Event", "YTM Event (ignored)", "YTM Poll", "YTM Poll Reconnect Sync",
     "YTM Activate Sync", "YTM Activate Sync (No Data)", "YTM Reconnect Failed"}

\* The 'source' value of the track infos normalized from each source.
SourceLabel(src) == IF src = "spotify" THEN "Spotify" ELSE "YouTube Music"

\* The MusicSource member of each source.
SourceMember(src) == IF src = "spotify" THEN "SPOTIFY" ELSE "YTM"

\* C12: in every reachable state one of the two sources is the preferred
\* one, only its client exists, no method of the other source's client has
\* been called and the other source is not connected; no update comes from
\* the other source's paths, and the current track info and current source
\* are never attributed to the other source.
OnlyPreferredSource ==
    /\ preferred_source \in {"spotify", "ytm"}
    /\ spotify => preferred_source = "spotify"
    /\ ytm => preferred_source = "ytm"
    /\ client_calls \subseteq {preferred_source}
    /\ ytm_connected => preferred_source = "ytm"
    /\ last.path \in SpotifyPaths => preferred_source = "spotify"
    /\ last.path \in YTMPaths => preferred_source = "ytm"
    /\ current_source \in {"NONE", SourceMember(preferred_source)}
    /\ current_track_info # NoTrack
           => current_track_info.source \in {"None", SourceLabel(preferred_source)}
    /\ \A i \in 1..Len(ytm_event_data_queue) :
           ytm_event_data_queue[i].source \in {"None", SourceLabel(preferred_source)}

\* With YTM preferred, the poll loop, the push handler and the render tick
\* have all run and the engine holds a YTM track.
OnlyPreferredSourceWitness ==
    /\ preferred_source = "ytm"
    /\ client_calls = {"ytm"}
    /\ last.path = "YTM Event"
    /\ current_source = "YTM"
    /\ ytm_connected

\* The 'source' value of the track infos attributed to a MusicSource member.
LabelOfMember(member) == IF member = "SPOTIFY" THEN "Spotify" ELSE "YouTube Music"

\* C13: after an applied update whose track info carries the none source the
\* current source is NONE, and in every reachable state a current source
\* other than NONE goes with a current track info that is playing and is
\* attributed to that source.
CurrentSourceMatchesTrack ==
    /\ (last.kind \in {"Minor", "Significant"} /\ last.info.source = "None")
           => current_source = "NONE"
    /\ current_source # "NONE"
           => /\ current_track_info # NoTrack
              /\ current_track_info.is_playing
              /\ current_track_info.source = LabelOfMember(current_source)

\* A track info that carries the title or the author of an ad.
CarriesAd(info) ==
    /\ info # NoTrack
    /\ info.title \in AdTitles \/ info.artist \in AdAuthors

\* C14: a hybrid snapshot with an ad playing, or without a title or an
\* author, is normalized to the nothing-playing sentinel whatever its other
\* fields are, by the normalizer and by the update handler's pre-filter; an
\* update from such a snapshot hands the sentinel to the store, and neither
\* the stored track info nor a value in the event queue carries the
\* metadata of an ad.
AdsAreNothingPlaying ==
    /\ \A d \in YTMAdSnapshots :
           /\ get_simplified_track_info(d, "YTM") = nothing_playing_info
           /\ YTMSimplifiedInfo(d) = nothing_playing_info
    /\ last.ad => last.info = nothing_playing_info
    /\ ~CarriesAd(current_track_info)
    /\ \A i \in 1..Len(ytm_event_data_queue) : ~CarriesAd(ytm_event_data_queue[i])

\* A push event delivered an ad while Song1 was stored; the store now holds
\* the sentinel and the sentinel is in the event queue.
AdsAreNothingPlayingWitness ==
    /\ last.ad /\ last.path = "YTM Event"
    /\ last.rel = "significant"
    /\ current_track_info = nothing_playing_info
    /\ ytm_event_data_queue = <<nothing_playing_info>>

\* The next statement of context t reads or writes the current track info,
\* the current source, the artwork cache or the refresh flag.
SharedStateAccess(t) ==
    \/ bctx[t].pc = "locked"
    \/ bctx[t].pc = "flag" /\ bctx[t].significant
    \/ bctx[t].pc \in {"read_flag", "clear_flag"}

\* C15: a context that is about to read or write a field of the shared
\* state (current track info, current source, cached image, cached URL,
\* refresh flag) holds track_info_lock, and no two contexts are at such an
\* access at the same time.
SharedStateUnderLock ==
    /\ \A t \in LockContexts : SharedStateAccess(t) => track_info_lock = t
    /\ \A t1, t2 \in LockContexts :
           t1 # t2 => ~(SharedStateAccess(t1) /\ SharedStateAccess(t2))

\* C16: no context makes a call that leaves the plugin while it holds
\* track_info_lock: no call to a source client, no image fetch and no call
\* to the plugin manager's priority mode switch.
NoCallsUnderLock == locked_calls = {}

\* C17: no failure of a client call or of the image fetch escapes a poll
\* iteration or a render tick: no call of a handler has ended with an
\* exception and no poll thread has been ended by one.
NoFailureEscapes ==
    /\ escapes = {}
    /\ \A i \in DOMAIN poll_threads : poll_threads[i] # "crashed"

\* Thread i has left _poll_music_data.
Terminated(i) == i \in DOMAIN poll_threads /\ poll_threads[i] \in {"done", "crashed"}

\* C18: once stop_polling has set the stop signal, every poll thread that
\* exists at that moment terminates.
StopEndsPollLoop ==
    \A i \in 1..MaxPollThreads :
        (stop_event /\ i \in DOMAIN poll_threads) ~> Terminated(i)

\* C19: a configuration whose enabled key is false or whose preferred_source
\* is neither spotify nor ytm leaves the plugin disabled; a disabled plugin
\* has no client, has made no call to a client, and no poll thread has been
\* created for it, whatever update, start_polling and stop_polling calls
\* were made.
DisabledNeverPolls ==
    /\ (~config.enabled \/ Lower(config.preferred_source) \notin {"spotify", "ytm"})
           => ~enabled
    /\ ~enabled => /\ ~spotify /\ ~ytm
                   /\ client_calls = {}
                   /\ poll_threads = <<>> /\ poll_thread = 0

\* A plugin configured with enabled true and the source tidal, after update
\* and start_polling were both called.
DisabledNeverPollsWitness ==
    /\ config.enabled /\ config.preferred_source = "tidal"
    /\ ~enabled
    /\ {"update", "start_polling"} \subseteq host_calls

\* C20: for a title that overflows the text area, with scrolling enabled
\* and no initial pause pending, after n render ticks from a zeroed scroll
\* state, none of them at the end of the text, the offset is n divided by
\* the speed, rounded down, and the tick counter is the remainder: with
\* speed 3 the offset is 0 after ticks 1 and 2 and 1 after tick 3, and it
\* advances by exactly 1 every `speed` ticks.
OffsetAdvancesEverySpeedTicks ==
    scroll_seen.ticks > 0 =>
        /\ scroll_state.scroll_position_title = scroll_seen.ticks \div scroll_config.speed
        /\ scroll_state.title_scroll_tick = scroll_seen.ticks % scroll_config.speed

\* The third tick from the zeroed state with speed 3 and no initial pause:
\* the offset has become 1.
OffsetAdvancesEverySpeedTicksWitness ==
    /\ scroll_config.speed = 3
    /\ scroll_config.initial_pause_frames = 0
    /\ scroll_seen.ticks = 3
    /\ scroll_state.scroll_position_title = 1

\* C21: with initial_pause_frames = N, each of the first N scrolling ticks
\* after the title's scroll state was reset displays the title unshifted
\* and leaves the offset and the tick counter as they were, whatever the
\* speed.
InitialPauseHoldsText ==
    (scroll_seen.drawn /\ Scrolls(scroll_config, scroll_seen.title) /\ scroll_seen.since_reset \in 1..scroll_config.initial_pause_frames) =>
        /\ scroll_seen.text = scroll_seen.title
        /\ scroll_state.scroll_position_title = scroll_seen.before.scroll_position_title
        /\ scroll_state.title_scroll_tick = scroll_seen.before.title_scroll_tick

\* The fifth tick of an initial pause of five frames at speed 1.
InitialPauseHoldsTextWitness ==
    /\ scroll_config.initial_pause_frames = 5
    /\ scroll_config.speed = 1
    /\ scroll_seen.since_reset = 5
    /\ scroll_seen.drawn
    /\ Scrolls(scroll_config, scroll_seen.title)
    /\ scroll_seen.text = scroll_seen.title

\* C22: the wrap law. Once the offset of the title has reached
\* len(title) - 1 and end_pause_frames ticks of end pause have elapsed, the
\* next tick displays title + separator + title[:0], the rotation of offset
\* 0, and leaves both pause counters at 0 and the at-end marker cleared,
\* for every speed and every end_pause_frames.
WrapResetsScrollState ==
    scroll_seen.wrap_due =>
        /\ scroll_seen.text = scroll_seen.title \o scroll_config.separator \o SliceTo(scroll_seen.title, 0)
        /\ scroll_state.title_initial_pause_counter = 0
        /\ scroll_state.title_end_pause_counter = 0
        /\ ~scroll_state.title_at_end

\* C23: with the priority mode on and the duration D, a render tick that
\* finds priority active no more than D seconds after its activation does
\* not relinquish it by the hard timeout, and a render tick that finds it
\* active more than D seconds after the activation deactivates priority
\* and tells the plugin manager to clear the priority mode, whatever is
\* playing.
HardTimeoutAfterDuration ==
    render_seen.timeout.active =>
        (render_seen.timeout.relinquished <=> render_seen.timeout.elapsed > priority_duration_seconds)

\* A render tick found priority active for longer than the duration and
\* relinquished it.
HardTimeoutAfterDurationWitness ==
    /\ render_seen.timeout.active
    /\ render_seen.timeout.elapsed > priority_duration_seconds
    /\ render_seen.timeout.relinquished
    /\ ~music_priority_active

\* C23 as stated: the render tick relinquishes priority exactly when it
\* finds it active D seconds or more after the activation.
HardTimeoutAtDuration ==
    render_seen.timeout.active =>
        (render_seen.timeout.relinquished <=> render_seen.timeout.elapsed >= priority_duration_seconds)

RenderDrainsQueue ==
    render_seen.drain.done => ~render_seen.drain.left

\* C26: the title's scroll state (offset, tick counter, both pause counters
\* and the at-end marker) is all zero when a full-refresh tick comes to
\* draw the title and when a tick comes to draw a title that differs from
\* the one the previous tick drew, and it is all zero after a tick that drew
\* a title that fits.
ScrollStateZeroed ==
    scroll_seen.drawn =>
        /\ scroll_seen.full_refresh => scroll_seen.before = ZeroScrollState
        /\ scroll_seen.changed => scroll_seen.before = ZeroScrollState
        /\ Fits(scroll_seen.title) => scroll_state = ZeroScrollState

\* C27: in a run of consecutive render ticks that take the Nothing-Playing
\* branch, a tick that is neither the first of the run nor a full refresh
\* calls no method of the display manager, and a tick that does clear,
\* draw and present is the first of the run or a full refresh.
NothingPlayingDrawnOnce ==
    (/\ render_seen.branch \in {"nothing_playing", "nothing_playing_timeout"}
     /\ render_seen.previous \in {"nothing_playing", "nothing_playing_timeout"}
     /\ ~render_seen.full_refresh) =>
        render_seen.canvas = {}

\* The second tick of a run, without a full refresh, after the first one
\* has drawn the text.
NothingPlayingDrawnOnceWitness ==
    /\ render_seen.branch = "nothing_playing"
    /\ render_seen.previous = "nothing_playing"
    /\ ~render_seen.full_refresh
    /\ is_currently_showing_nothing_playing
    /\ render_seen.canvas = {}

\* C28: the fetch of an artwork image changes the cache to hold the
\* fetched image with its URL only if, when display() comes back to the
\* cache, the URL it fetched is the album_art_url of the current track
\* info; when a writer has made that another URL meanwhile, the fetch
\* leaves the cached image and the cached URL as they were.
ArtworkCommitRechecked ==
    render_seen.art.done =>
        /\ (render_seen.art.after # render_seen.art.before
            /\ render_seen.art.after = <<render_seen.art.target, render_seen.art.target>>) =>
                render_seen.art.target = render_seen.art.live
        /\ (render_seen.art.fetched /\ render_seen.art.target # render_seen.art.live) =>
                render_seen.art.after = render_seen.art.before

\* A push event changed the track's artwork URL while the image of the
\* snapshot was fetched, and the fetched image was not committed.
ArtworkCommitRecheckedWitness ==
    /\ render_seen.art.done
    /\ render_seen.art.fetched
    /\ render_seen.art.target = "A"
    /\ render_seen.art.live = "B"
    /\ album_art_image # "A"

\* C29: an iteration of the poll loop calls connect_client only when the
\* hybrid source is preferred, its client is disconnected and the display
\* is active; when the call returns failure and the current source was the
\* hybrid source, the iteration leaves the nothing-playing sentinel as the
\* current TrackInfo, NONE as the current source and no cached artwork; an
\* iteration that finds the client disconnected and the display inactive
\* changes nothing.
ReconnectOnlyWhenActive ==
    poll_seen.done =>
        /\ poll_seen.reconnect # "none" =>
               /\ poll_seen.preferred_source = "ytm"
               /\ ~poll_seen.connected
               /\ poll_seen.active
        /\ (poll_seen.reconnect = "failed" /\ poll_seen.source = "YTM") =>
               poll_seen.after = <<nothing_playing_info, "NONE", None, None>>
        /\ (poll_seen.preferred_source = "ytm" /\ ~poll_seen.connected
            /\ ~poll_seen.active) =>
               ~poll_seen.changed

\* An iteration found the display active and the hybrid source, the
\* current source, disconnected, and its reconnect failed.
ReconnectOnlyWhenActiveWitness ==
    /\ poll_seen.done
    /\ poll_seen.reconnect = "failed"
    /\ poll_seen.source = "YTM"
    /\ poll_seen.active
    /\ ~poll_seen.connected
    /\ poll_seen.changed

\* C30: whenever a writer has set the refresh flag, a later render tick
\* runs in full-refresh mode with a snapshot that shows the track the
\* writer stored (or one stored after it).
SignificantChangeNeverLost ==
    <>[][~(PushEvent \/ PollYTM)]_vars =>
        (refresh_pending.pending ~> ~refresh_pending.pending)

\* C31: a render tick during which no writer runs (the activation sync of
\* the tick hands nothing to _process_ytm_data_update) draws the TrackInfo
\* that the store holds at the end of the tick.
RenderDrawsStoredTrack ==
    (render_seen.snapshot.done /\ ~render_seen.snapshot.writer) =>
        ~render_seen.snapshot.stale

\* C32: at most one thread is in _poll_music_data at any time, whatever
\* the sequence of start_polling, stop_polling and update calls.
AtMostOnePollLoop ==
    Cardinality({i \in DOMAIN poll_threads : poll_threads[i] \in {"entry", "body"}}) <= 1

\* C33: the calls of the plugin manager alternate between
\* set_priority_mode and clear_priority_mode, beginning with
\* set_priority_mode, and while no thread is inside
\* _activate_music_priority or _deactivate_music_priority the flag
\* music_priority_active is what the last call implies.
PriorityCallsAlternate ==
    /\ \A i \in DOMAIN bctx.calls :
           bctx.calls[i] = IF i % 2 = 1 THEN "set_priority_mode"
                           ELSE "clear_priority_mode"
    /\ (\A c \in ModeContexts : bctx.at[c].pc = "idle") =>
           (music_priority_active <=> Len(bctx.calls) % 2 = 1)

\* C34: a call of display() that found the music display active and gave
\* priority up, by the timeout of _check_music_priority_timeout or after
\* nothing_playing_timeout_seconds of nothing playing, returns with
\* music_priority_active false, whatever force_clear and the refresh flag
\* are.
RelinquishingTickEndsInactive ==
    (/\ render_seen.priority.done
     /\ render_seen.priority.entry_active
     /\ render_seen.timeout.relinquished \/ render_seen.nothing_playing.relinquished) =>
        ~render_seen.priority.after

\* C35: while the engine is disabled, music_priority_active stays false,
\* so plugin_manager.set_priority_mode, which _activate_music_priority
\* calls only as it sets the flag, is never called, whatever
\* music_priority_mode is configured to.
DisabledNeverTakesPriority ==
    ~enabled => ~music_priority_active

\* C36: the artwork image in the cache, when there is one, is the image
\* fetched for the URL in the cache, and the image display() pastes, when
\* it pastes one, is the image fetched for the album_art_url of the
\* snapshot it draws; the cached image is pasted only when the cached URL
\* is that URL.
PastedArtworkIsOfSnapshot ==
    /\ album_art_image # None => album_art_image = last_album_art_url
    /\ (render_seen.paste.done /\ render_seen.paste.image # None) =>
           render_seen.paste.image = render_seen.paste.target

\* display() found in the cache the image of its snapshot's album_art_url
\* and pasted it without a fetch; it is still the cached image.
PastedArtworkIsOfSnapshotWitness ==
    /\ render_seen.paste.done
    /\ render_seen.paste.cached[1] # None
    /\ render_seen.paste.cached[2] = render_seen.paste.target
    /\ render_seen.paste.image = render_seen.paste.cached[1]
    /\ album_art_image = render_seen.paste.image

\* C37: the offset with which a render tick builds the rotation of an
\* album wider than the text area is at least 0 and at most the length of
\* the album text of that tick less one, also when that text is shorter
\* than the text of the tick before and the tick is not a full refresh.
AlbumOffsetWithinText ==
    (bctx.drawn /\ bctx.offset # NoNumber) =>
        /\ 0 <= bctx.offset
        /\ bctx.offset <= Len(bctx.album) - 1

\* C38: while the music display is inactive, no step of the push handler
\* changes the current track info, the current source, the artwork cache,
\* the refresh flag or the event queue, also when the delivery had passed
\* the guards of lines 416-422 before deactivate_music_display ran.
NoPushWriteWhileInactive ==
    [][(~is_music_display_active /\ bctx'["push"] # bctx["push"]) =>
           SharedFields(Now)' = SharedFields(Now)]_vars

\* Context t is at a with statement of track_info_lock.
Requests(t) == bctx[t].pc = IF t = "render" THEN "snapshot" ELSE "request"

====
